---- MODULE Spec2Model ----
(***************************************************************************)
(* A model of the photo organizer: the geocoding cache (src/src/cache.py), *)
(* the location classifier (src/src/location.py), the path generator       *)
(* (src/src/path_generator.py) and the organizer (src/src/organizer.py).   *)
(*                                                                         *)
(* Text is modelled as a sequence of one-character strings, so that the    *)
(* substring tests, the lower-casing and the normalisation of the code are *)
(* computed character by character.                                        *)
(***************************************************************************)
EXTENDS Integers, Sequences, FiniteSets, TLC

VARIABLES
    parkOrder,   \* process: order in which it iterates the national_parks set
    apiKey,      \* process: whether locationiq_api_key is configured
    address,     \* rules: the location_data dict given to _apply_granularity_rules
    evalName,    \* rules: the name it returned
    evalGran,    \* rules: location_data['granularity'] after the call
    prevEval,    \* rules: <<>>, or <<[name, granularity]>> of the evaluation before
    cache,       \* the rows of table geocoding_cache
    conn,        \* GeocodingCache.conn is not None
    clock,       \* the time datetime.now() reads
    sets,        \* history: the arguments of the set calls made so far
    got,         \* <<>>, or <<[lat, lon, precision, value]>>: the last get call
    callNo,      \* classifier: number of get_location_name calls made
    query,       \* classifier: <<>>, or <<[lat, lon]>> of the last call
    outcome,     \* classifier: how the last call ended
    result,      \* classifier: <<>>, or <<name>> the last call returned
    calls,       \* classifier: the providers the last call invoked, in order
    answered,    \* classifier: <<>>, or <<[key, o1, o2]>>: the key setting and the
                 \* services' answers during the last call
    prevCall,    \* classifier: <<>>, or <<[lat, lon, outcome]>> of the call before
    files,       \* file system: the content (a sequence of bytes) at each file path
    dirs,        \* file system: the directories that exist
    mode,        \* organizer: 'move' or 'copy'
    dry_run,     \* organizer: preview only
    verify,      \* organizer: verify integrity after a copy
    filename_pattern, \* organizer: the filename template, as a sequence of tokens
    media_files, \* organizer: the media files under source_path, in scan order
    pc,          \* organizer: the position of organize() in its code
    index,       \* organizer: the position in media_files of the file in process
    target,      \* organizer: <<>>, or <<target_path>> of the file in process
    targets,     \* history: per media file, <<>> or <<the target path it was given>>
    stats,       \* organizer: the Statistics object
    transactions, \* organizer: TransactionLog.transactions
    duplicates,  \* organizer: PhotoOrganizer.duplicates
    log_saves,   \* history: the writes of transaction_log.json attempted
    report_saves, \* history: the writes of duplicates_report.txt attempted
    exclude_patterns, \* scanner: MediaScanner.exclude_patterns
    last_api_call, \* classifier: LocationIntelligence.last_api_call
    sleep_time,  \* classifier: what _rate_limit has still to sleep
    api_starts   \* history: the provider calls started, <<[provider, at]>>

vars == <<parkOrder, apiKey, address, evalName, evalGran, prevEval,
          cache, conn, clock, sets, got,
          callNo, query, outcome, result, calls, answered, prevCall,
          files, dirs, mode, dry_run, verify, filename_pattern, media_files,
          pc, index, target, targets, stats, transactions, duplicates,
          log_saves, report_saves, exclude_patterns,
          last_api_call, sleep_time, api_starts>>

procVars == <<parkOrder, apiKey>>
rulesVars == <<address, evalName, evalGran, prevEval>>
cacheVars == <<cache, conn, clock>>
cacheApiVars == <<sets, got>>
classifyVars == <<callNo, query, outcome, result, calls, answered, prevCall>>
fsVars == <<files, dirs>>
configVars == <<mode, dry_run, verify, filename_pattern, media_files, exclude_patterns>>
rateVars == <<last_api_call, sleep_time, api_starts>>
runVars == <<pc, index, target, targets, stats, transactions, duplicates,
             log_saves, report_saves>>
organizeVars == <<fsVars, configVars, runVars>>

None == "None"

\* the parts of the state a specification does not use keep these values
RulesIdle ==
    /\ address = None
    /\ evalName = <<>>
    /\ evalGran = None
    /\ prevEval = <<>>

CacheApiIdle ==
    /\ sets = <<>>
    /\ got = <<>>

ClassifyIdle ==
    /\ callNo = 0
    /\ query = <<>>
    /\ outcome = None
    /\ result = <<>>
    /\ calls = <<>>
    /\ answered = <<>>
    /\ prevCall = <<>>

RateIdle ==
    /\ last_api_call = 0
    /\ sleep_time = 0
    /\ api_starts = <<>>

OrganizeIdle ==
    /\ exclude_patterns = <<>>
    /\ files = <<>>
    /\ dirs = {}
    /\ mode = None
    /\ dry_run = FALSE
    /\ verify = FALSE
    /\ filename_pattern = <<>>
    /\ media_files = <<>>
    /\ pc = "idle"
    /\ index = 0
    /\ target = <<>>
    /\ targets = <<>>
    /\ stats = None
    /\ transactions = <<>>
    /\ duplicates = <<>>
    /\ log_saves = <<>>
    /\ report_saves = <<>>

-----------------------------------------------------------------------------
(* Text *)

UPPER == <<"A","B","C","D","E","F","G","H","I","J","K","L","M",
           "N","O","P","Q","R","S","T","U","V","W","X","Y","Z">>
LOWER == <<"a","b","c","d","e","f","g","h","i","j","k","l","m",
           "n","o","p","q","r","s","t","u","v","w","x","y","z">>
DIGITS == <<"0","1","2","3","4","5","6","7","8","9">>

Range(s) == {s[i] : i \in 1..Len(s)}

UpperChars == Range(UPPER)
AlnumChars == Range(UPPER) \cup Range(LOWER) \cup Range(DIGITS)
LowerOf == [c \in UpperChars |-> LOWER[CHOOSE i \in 1..Len(UPPER) : UPPER[i] = c]]

\* str.isalnum() of one character (the model's alphabet is ASCII)
IsAlnum(c) == c \in AlnumChars

\* str.lower() of one character
LowerChar(c) == IF c \in UpperChars THEN LowerOf[c] ELSE c

\* str.lower()
Lower(s) == [i \in 1..Len(s) |-> LowerChar(s[i])]

\* Python's "sub in s"
Contains(s, sub) ==
    \E i \in 0..(Len(s) - Len(sub)) : SubSeq(s, i + 1, i + Len(sub)) = sub

\* str.replace(old, new) for one-character old and new
ReplaceChar(s, old, new) == [i \in 1..Len(s) |-> IF s[i] = old THEN new ELSE s[i]]

T_Empty == <<>>
T_Unknown == <<"U", "n", "k", "n", "o", "w", "n">>
T_Hyphen == <<"-">>
T_UnitedStates == <<"U", "n", "i", "t", "e", "d", " ", "S", "t", "a", "t", "e", "s">>
T_USA == <<"U", "S", "A">>
T_US == <<"U", "S">>
T_France == <<"F", "r", "a", "n", "c", "e">>
T_USVirginIslands == <<"U", "S", " ", "V", "i", "r", "g", "i", "n", " ", "I", "s", "l", "a", "n", "d", "s">>
T_CoteDIvoire == <<"C", "o", "t", "e", " ", "d", "'", "I", "v", "o", "i", "r", "e">>
T_California == <<"C", "a", "l", "i", "f", "o", "r", "n", "i", "a">>
T_Montana == <<"M", "o", "n", "t", "a", "n", "a">>
T_Guam == <<"G", "u", "a", "m">>
T_SanFrancisco == <<"S", "a", "n", " ", "F", "r", "a", "n", "c", "i", "s", "c", "o">>
T_SmallTown == <<"S", "m", "a", "l", "l", " ", "T", "o", "w", "n">>
T_SouthSanFrancisco == <<"S", "o", "u", "t", "h", " ", "S", "a", "n", " ", "F", "r", "a", "n", "c", "i", "s", "c", "o">>
T_KingsCanyonVillage == <<"K", "i", "n", "g", "s", " ", "C", "a", "n", "y", "o", "n", " ", "V", "i", "l", "l", "a", "g", "e">>
T_SequoiaNP == <<"S", "e", "q", "u", "o", "i", "a", " ", "N", "a", "t", "i", "o", "n", "a", "l", " ", "P", "a", "r", "k">>
T_SequoiaKings == <<"S", "e", "q", "u", "o", "i", "a", " ", "a", "n", "d", " ", "K", "i", "n", "g", "s", " ", "C", "a", "n", "y", "o", "n">>
T_SanFranciscoBay == <<"s", "a", "n", " ", "f", "r", "a", "n", "c", "i", "s", "c", "o", " ", "b", "a", "y">>
T_Mariposa == <<"M", "a", "r", "i", "p", "o", "s", "a", " ", "C", "o", "u", "n", "t", "y">>
T_Sequoia == <<"S", "e", "q", "u", "o", "i", "a">>
T_KingsCanyon == <<"K", "i", "n", "g", "s", " ", "C", "a", "n", "y", "o", "n">>

-----------------------------------------------------------------------------
(* LocationIntelligence: the granularity rules *)

\* the configured tables (a subset of DEFAULT_NATIONAL_PARKS / DEFAULT_MAJOR_CITIES)
national_parks == {T_Sequoia, T_KingsCanyon}
major_cities == {T_SanFrancisco}

\* the table of _get_state_abbreviation
state_abbrev ==
    << <<<<"A", "l", "a", "b", "a", "m", "a">>, <<"A", "L">>>>,
       <<<<"A", "l", "a", "s", "k", "a">>, <<"A", "K">>>>,
       <<<<"A", "r", "i", "z", "o", "n", "a">>, <<"A", "Z">>>>,
       <<<<"A", "r", "k", "a", "n", "s", "a", "s">>, <<"A", "R">>>>,
       <<<<"C", "a", "l", "i", "f", "o", "r", "n", "i", "a">>, <<"C", "A">>>>,
       <<<<"C", "o", "l", "o", "r", "a", "d", "o">>, <<"C", "O">>>>,
       <<<<"C", "o", "n", "n", "e", "c", "t", "i", "c", "u", "t">>, <<"C", "T">>>>,
       <<<<"D", "e", "l", "a", "w", "a", "r", "e">>, <<"D", "E">>>>,
       <<<<"F", "l", "o", "r", "i", "d", "a">>, <<"F", "L">>>>,
       <<<<"G", "e", "o", "r", "g", "i", "a">>, <<"G", "A">>>>,
       <<<<"H", "a", "w", "a", "i", "i">>, <<"H", "I">>>>,
       <<<<"I", "d", "a", "h", "o">>, <<"I", "D">>>>,
       <<<<"I", "l", "l", "i", "n", "o", "i", "s">>, <<"I", "L">>>>,
       <<<<"I", "n", "d", "i", "a", "n", "a">>, <<"I", "N">>>>,
       <<<<"I", "o", "w", "a">>, <<"I", "A">>>>,
       <<<<"K", "a", "n", "s", "a", "s">>, <<"K", "S">>>>,
       <<<<"K", "e", "n", "t", "u", "c", "k", "y">>, <<"K", "Y">>>>,
       <<<<"L", "o", "u", "i", "s", "i", "a", "n", "a">>, <<"L", "A">>>>,
       <<<<"M", "a", "i", "n", "e">>, <<"M", "E">>>>,
       <<<<"M", "a", "r", "y", "l", "a", "n", "d">>, <<"M", "D">>>>,
       <<<<"M", "a", "s", "s", "a", "c", "h", "u", "s", "e", "t", "t", "s">>, <<"M", "A">>>>,
       <<<<"M", "i", "c", "h", "i", "g", "a", "n">>, <<"M", "I">>>>,
       <<<<"M", "i", "n", "n", "e", "s", "o", "t", "a">>, <<"M", "N">>>>,
       <<<<"M", "i", "s", "s", "i", "s", "s", "i", "p", "p", "i">>, <<"M", "S">>>>,
       <<<<"M", "i", "s", "s", "o", "u", "r", "i">>, <<"M", "O">>>>,
       <<<<"M", "o", "n", "t", "a", "n", "a">>, <<"M", "T">>>>,
       <<<<"N", "e", "b", "r", "a", "s", "k", "a">>, <<"N", "E">>>>,
       <<<<"N", "e", "v", "a", "d", "a">>, <<"N", "V">>>>,
       <<<<"N", "e", "w", " ", "H", "a", "m", "p", "s", "h", "i", "r", "e">>, <<"N", "H">>>>,
       <<<<"N", "e", "w", " ", "J", "e", "r", "s", "e", "y">>, <<"N", "J">>>>,
       <<<<"N", "e", "w", " ", "M", "e", "x", "i", "c", "o">>, <<"N", "M">>>>,
       <<<<"N", "e", "w", " ", "Y", "o", "r", "k">>, <<"N", "Y">>>>,
       <<<<"N", "o", "r", "t", "h", " ", "C", "a", "r", "o", "l", "i", "n", "a">>, <<"N", "C">>>>,
       <<<<"N", "o", "r", "t", "h", " ", "D", "a", "k", "o", "t", "a">>, <<"N", "D">>>>,
       <<<<"O", "h", "i", "o">>, <<"O", "H">>>>,
       <<<<"O", "k", "l", "a", "h", "o", "m", "a">>, <<"O", "K">>>>,
       <<<<"O", "r", "e", "g", "o", "n">>, <<"O", "R">>>>,
       <<<<"P", "e", "n", "n", "s", "y", "l", "v", "a", "n", "i", "a">>, <<"P", "A">>>>,
       <<<<"R", "h", "o", "d", "e", " ", "I", "s", "l", "a", "n", "d">>, <<"R", "I">>>>,
       <<<<"S", "o", "u", "t", "h", " ", "C", "a", "r", "o", "l", "i", "n", "a">>, <<"S", "C">>>>,
       <<<<"S", "o", "u", "t", "h", " ", "D", "a", "k", "o", "t", "a">>, <<"S", "D">>>>,
       <<<<"T", "e", "n", "n", "e", "s", "s", "e", "e">>, <<"T", "N">>>>,
       <<<<"T", "e", "x", "a", "s">>, <<"T", "X">>>>,
       <<<<"U", "t", "a", "h">>, <<"U", "T">>>>,
       <<<<"V", "e", "r", "m", "o", "n", "t">>, <<"V", "T">>>>,
       <<<<"V", "i", "r", "g", "i", "n", "i", "a">>, <<"V", "A">>>>,
       <<<<"W", "a", "s", "h", "i", "n", "g", "t", "o", "n">>, <<"W", "A">>>>,
       <<<<"W", "e", "s", "t", " ", "V", "i", "r", "g", "i", "n", "i", "a">>, <<"W", "V">>>>,
       <<<<"W", "i", "s", "c", "o", "n", "s", "i", "n">>, <<"W", "I">>>>,
       <<<<"W", "y", "o", "m", "i", "n", "g">>, <<"W", "Y">>>>,
       <<<<"D", "i", "s", "t", "r", "i", "c", "t", " ", "o", "f", " ", "C", "o", "l", "u", "m", "b", "i", "a">>, <<"D", "C">>>> >>

\* _normalize_name without its filter of special characters
NormalizeNameKeepAll(name) == ReplaceChar(name, " ", "_")

\* _normalize_name: spaces to underscores, then keep alphanumerics, "_" and "-"
NormalizeName(name) ==
    SelectSeq(ReplaceChar(name, " ", "_"), LAMBDA c : IsAlnum(c) \/ c \in {"_", "-"})

\* the keys of state_abbrev and the value at each key
StateNames == {state_abbrev[i][1] : i \in 1..Len(state_abbrev)}
AbbreviationOf ==
    [name \in StateNames |->
        state_abbrev[CHOOSE i \in 1..Len(state_abbrev) : state_abbrev[i][1] = name][2]]

\* _get_state_abbreviation answering "Unknown" for a name absent from the table
GetStateAbbreviationStrict(state) ==
    IF state \in StateNames THEN AbbreviationOf[state] ELSE T_Unknown

\* _get_state_abbreviation: state_abbrev.get(state, state)
GetStateAbbreviation(state) ==
    IF state \in StateNames THEN AbbreviationOf[state] ELSE state

\* is_us with 'US' tested as a substring too
IsUSSubstring(country) ==
    \/ Contains(country, T_UnitedStates)
    \/ Contains(country, T_USA)
    \/ Contains(country, T_US)

\* is_us = 'United States' in country or 'USA' in country or country == 'US'
IsUS(country) ==
    \/ Contains(country, T_UnitedStates)
    \/ Contains(country, T_USA)
    \/ country = T_US

\* park.lower() in county.lower() or park.lower() in city.lower()
ParkMatches(park, d) ==
    \/ Contains(Lower(d.county), Lower(park))
    \/ Contains(Lower(d.city), Lower(park))

\* the major-city test without the lower-casing of both sides
CityMatchesCaseSensitive(d) ==
    \E mc \in major_cities : Contains(d.city, mc)

\* any(major_city.lower() in city.lower() for major_city in self.major_cities)
CityMatches(d) ==
    \E mc \in major_cities : Contains(Lower(d.city), Lower(mc))

\* the orders in which a process may iterate the national_parks set: the set
\* holds str, whose hash is randomised per process, so the order is fixed
\* within one process and may differ from one process to the next
ParkOrders ==
    {o \in [1..Cardinality(national_parks) -> national_parks] :
        \A i, j \in DOMAIN o : i # j => o[i] # o[j]}

\* the first park of the iteration that matches, None when none does
FirstPark(d, order) ==
    IF \E i \in 1..Len(order) : ParkMatches(order[i], d)
    THEN order[CHOOSE i \in 1..Len(order) :
                  /\ ParkMatches(order[i], d)
                  /\ \A j \in 1..(i - 1) : ~ParkMatches(order[j], d)]
    ELSE None

\* the rules with the major-city test moved before the park loop
ApplyRulesCityFirst(d, order) ==
    IF ~IsUS(d.country)
    THEN [name |-> IF d.country # T_Empty THEN NormalizeName(d.country) ELSE T_Unknown,
          granularity |-> "country"]
    ELSE IF d.city # T_Empty /\ CityMatches(d)
    THEN [name |-> GetStateAbbreviation(d.state) \o T_Hyphen \o NormalizeName(d.city),
          granularity |-> "major_city"]
    ELSE IF FirstPark(d, order) # None
    THEN [name |-> GetStateAbbreviation(d.state) \o T_Hyphen
                      \o NormalizeName(FirstPark(d, order)),
          granularity |-> "national_park"]
    ELSE [name |-> IF d.state # T_Empty THEN GetStateAbbreviation(d.state) ELSE T_Unknown,
          granularity |-> "state"]

\* the rules naming a park after the geocoded county or city text
ApplyRulesCountyText(d, order) ==
    IF ~IsUS(d.country)
    THEN [name |-> IF d.country # T_Empty THEN NormalizeName(d.country) ELSE T_Unknown,
          granularity |-> "country"]
    ELSE IF FirstPark(d, order) # None
    THEN [name |-> GetStateAbbreviation(d.state) \o T_Hyphen
                      \o NormalizeName(IF d.county # T_Empty THEN d.county ELSE d.city),
          granularity |-> "national_park"]
    ELSE IF d.city # T_Empty /\ CityMatches(d)
    THEN [name |-> GetStateAbbreviation(d.state) \o T_Hyphen \o NormalizeName(d.city),
          granularity |-> "major_city"]
    ELSE [name |-> IF d.state # T_Empty THEN GetStateAbbreviation(d.state) ELSE T_Unknown,
          granularity |-> "state"]

\* _apply_granularity_rules: the returned name and the granularity it stores
\* in location_data; order is the iteration order of self.national_parks
ApplyGranularityRules(d, order) ==
    IF ~IsUS(d.country)
    THEN [name |-> IF d.country # T_Empty THEN NormalizeName(d.country) ELSE T_Unknown,
          granularity |-> "country"]
    ELSE IF FirstPark(d, order) # None
    THEN [name |-> GetStateAbbreviation(d.state) \o T_Hyphen
                      \o NormalizeName(FirstPark(d, order)),
          granularity |-> "national_park"]
    ELSE IF d.city # T_Empty /\ CityMatches(d)
    THEN [name |-> GetStateAbbreviation(d.state) \o T_Hyphen \o NormalizeName(d.city),
          granularity |-> "major_city"]
    ELSE [name |-> IF d.state # T_Empty THEN GetStateAbbreviation(d.state) ELSE T_Unknown,
          granularity |-> "state"]

-----------------------------------------------------------------------------
(* The rules as a state machine: one parsed address, evaluated by a process  *)
(* and again by later processes                                              *)

Countries == {T_Empty, T_France, T_CoteDIvoire, T_UnitedStates, T_US, T_USVirginIslands}
States == {T_Empty, T_California, T_Guam}
Cities ==
    {T_Empty, T_SmallTown, T_SouthSanFrancisco, T_SanFranciscoBay, T_KingsCanyonVillage}
Counties == {T_Empty, T_Mariposa, T_SequoiaNP, T_SequoiaKings}

\* the dict built by _parse_geocode_result
LocationData == [country : Countries, state : States, city : Cities, county : Counties]

InitRules ==
    /\ RateIdle
    /\ parkOrder \in ParkOrders
    /\ apiKey = FALSE
    /\ cache = {}
    /\ conn = TRUE
    /\ clock = 0
    /\ CacheApiIdle
    /\ ClassifyIdle
    /\ OrganizeIdle
    /\ address \in LocationData
    /\ evalName = <<>>
    /\ evalGran = None
    /\ prevEval = <<>>

\* one call of _apply_granularity_rules(address)
ApplyRules ==
    \E r \in {ApplyGranularityRules(address, parkOrder)} :
    /\ evalName' = r.name
    /\ evalGran' = r.granularity
    /\ prevEval' = IF evalGran = None THEN <<>>
                   ELSE <<[name |-> evalName, granularity |-> evalGran]>>
    /\ UNCHANGED <<address, procVars, rateVars, cacheVars, cacheApiVars, classifyVars, organizeVars>>

\* the program is started again: the new process iterates the set in its own
\* order and reads its configuration (the LocationIQ key) again; the cache
\* file is kept
NewProcess ==
    /\ \E o \in ParkOrders, k \in BOOLEAN :
           /\ parkOrder' = o
           /\ apiKey' = k
    /\ UNCHANGED <<rulesVars, cacheVars, cacheApiVars, classifyVars, organizeVars,
                   rateVars>>

NextRules ==
    \/ ApplyRules
    \/ NewProcess

SpecRules == InitRules /\ [][NextRules]_vars

-----------------------------------------------------------------------------
(* Claims about the granularity rules (SpecRules) *)

Evaluated == evalGran # None

\* the name normalisation as the specification words it: every space becomes
\* an underscore, and every character that is not alphanumeric, an underscore
\* or a hyphen is removed
RECURSIVE SpecNormalized(_)
SpecNormalized(s) ==
    IF s = <<>> THEN <<>>
    ELSE LET c == Head(s) IN
         IF c = " " THEN <<"_">> \o SpecNormalized(Tail(s))
         ELSE IF IsAlnum(c) \/ c = "_" \/ c = "-" THEN <<c>> \o SpecNormalized(Tail(s))
         ELSE SpecNormalized(Tail(s))

\* the country denotes the United States
DenotesUS(country) ==
    \/ Contains(country, T_UnitedStates)
    \/ Contains(country, T_USA)
    \/ country = T_US

\* the configured parks whose name the county or the city contains
MatchingParks(d) ==
    {park \in national_parks :
        \/ Contains(Lower(d.county), Lower(park))
        \/ Contains(Lower(d.city), Lower(park))}

\* C7: two evaluations of the same address give the same location name and
\* the same granularity, also when the address names several configured parks
C7_RulesDeterministic ==
    (Evaluated /\ prevEval # <<>>) =>
        /\ prevEval[1].name = evalName
        /\ prevEval[1].granularity = evalGran

\* C8: the rules are tried in the order foreign country, national park, major
\* city, state: a non-US address is classified as country whatever its city or
\* county names, and a US address matching a park is classified as
\* national_park also when its city names a major city
C8_RulePriority ==
    Evaluated =>
        /\ ~DenotesUS(address.country) => evalGran = "country"
        /\ (DenotesUS(address.country) /\ MatchingParks(address) # {})
               => evalGran = "national_park"
        /\ (DenotesUS(address.country) /\ MatchingParks(address) = {} /\ CityMatches(address))
               => evalGran = "major_city"

\* C8 witness: a US address naming both a park and a major city was evaluated
C8_Witness ==
    /\ Evaluated
    /\ DenotesUS(address.country)
    /\ MatchingParks(address) # {}
    /\ CityMatches(address)
    /\ evalGran = "national_park"

\* C9: a country that does not denote the United States gives granularity
\* country and the normalised country name, or "Unknown" when it is empty
C9_ForeignCountry ==
    (Evaluated /\ ~DenotesUS(address.country)) =>
        /\ evalGran = "country"
        /\ evalName = IF address.country = T_Empty THEN T_Unknown
                      ELSE SpecNormalized(address.country)

\* C9 witness: a foreign country whose name holds a space and a character
\* that the normalisation removes was evaluated
C9_Witness ==
    /\ Evaluated
    /\ address.country = T_CoteDIvoire
    /\ evalGran = "country"
    /\ evalName = <<"C", "o", "t", "e", "_", "d", "I", "v", "o", "i", "r", "e">>

\* C10: a US address whose county or city contains a configured park name
\* gives granularity national_park and the name "{state_abbr}-{park}", the
\* park being the normalised configured name, not the geocoded text
C10_NationalPark ==
    (Evaluated /\ DenotesUS(address.country) /\ MatchingParks(address) # {}) =>
        /\ evalGran = "national_park"
        /\ \E park \in MatchingParks(address) :
               evalName = GetStateAbbreviation(address.state) \o T_Hyphen
                              \o SpecNormalized(park)

\* C10 witness: county "Sequoia National Park" in California gave "CA-Sequoia"
C10_Witness ==
    /\ Evaluated
    /\ address.country = T_UnitedStates
    /\ address.state = T_California
    /\ address.county = T_SequoiaNP
    /\ address.city = T_Empty
    /\ evalGran = "national_park"
    /\ evalName = <<"C", "A", "-", "S", "e", "q", "u", "o", "i", "a">>

\* the configured major cities whose name the city contains, whatever the case
MatchingCities(d) ==
    {mc \in major_cities : Contains(Lower(d.city), Lower(mc))}

\* C11: a US address that matches no park and whose city contains the name of
\* a configured major city, in any case, gives granularity major_city and the
\* name "{state_abbr}-{city}", the city being the normalised geocoded city
C11_MajorCity ==
    (/\ Evaluated
     /\ DenotesUS(address.country)
     /\ MatchingParks(address) = {}
     /\ MatchingCities(address) # {}) =>
        /\ evalGran = "major_city"
        /\ evalName = GetStateAbbreviation(address.state) \o T_Hyphen
                          \o SpecNormalized(address.city)

\* C11 witness: city "san francisco bay" in California, no park, gave
\* "CA-san_francisco_bay"
C11_Witness ==
    /\ Evaluated
    /\ address.country = T_UnitedStates
    /\ address.state = T_California
    /\ address.city = T_SanFranciscoBay
    /\ address.county = T_Mariposa
    /\ evalGran = "major_city"
    /\ evalName = <<"C", "A", "-", "s", "a", "n", "_", "f", "r", "a", "n", "c", "i", "s",
                    "c", "o", "_", "b", "a", "y">>

\* C12: a US address that matches no park and no major city gives granularity
\* state and, as its name, the two-letter abbreviation of the state from the
\* table, the state name unchanged when the table does not hold it, or
\* "Unknown" when the state is empty
C12_StateOnly ==
    (/\ Evaluated
     /\ DenotesUS(address.country)
     /\ MatchingParks(address) = {}
     /\ MatchingCities(address) = {}) =>
        /\ evalGran = "state"
        /\ address.state = T_Empty => evalName = T_Unknown
        /\ (\E i \in 1..Len(state_abbrev) : state_abbrev[i][1] = address.state) =>
               /\ Len(evalName) = 2
               /\ \E i \in 1..Len(state_abbrev) :
                      state_abbrev[i] = <<address.state, evalName>>
        /\ (/\ address.state # T_Empty
            /\ \A i \in 1..Len(state_abbrev) : state_abbrev[i][1] # address.state)
               => evalName = address.state

\* C12 witness: a rural US address in Guam, which the table does not hold,
\* gave "Guam"
C12_Witness ==
    /\ Evaluated
    /\ address.country = T_UnitedStates
    /\ address.state = T_Guam
    /\ address.city = T_SmallTown
    /\ address.county = T_Mariposa
    /\ evalGran = "state"
    /\ evalName = T_Guam


-----------------------------------------------------------------------------
(* GeocodingCache *)

\* A coordinate is an integer number of 10^-CoordDigits degrees.
CoordDigits == 5

\* precision=4, the default of get and set
DefaultPrecision == 4

\* round(x, precision) of Python: the nearest multiple of 10^-precision. The
\* coordinates of the model are never half-way between two multiples (for a
\* float that case is decided by its binary value).
Round(x, precision) ==
    IF precision >= CoordDigits THEN x
    ELSE LET unit == 10 ^ (CoordDigits - precision)
             q == x \div unit
             r == x - q * unit
         IN  IF 2 * r < unit THEN q * unit
             ELSE IF 2 * r > unit THEN (q + 1) * unit
             ELSE IF q % 2 = 0 THEN q * unit ELSE (q + 1) * unit

\* location_data.get(key, '')
DictGet(d, key) == IF key \in DOMAIN d THEN d[key] ELSE T_Empty

\* the rows SELECT ... WHERE latitude = ? AND longitude = ? finds
RowsAt(rows, lat, lon) == {row \in rows : row.latitude = lat /\ row.longitude = lon}

\* get without rounding its arguments
CacheGetUnrounded(rows, open, lat, lon, precision) ==
    IF ~open THEN <<>>
    ELSE IF RowsAt(rows, lat, lon) = {} THEN <<>>
    ELSE LET row == CHOOSE r \in RowsAt(rows, lat, lon) : TRUE IN
         <<[location_name |-> row.location_name, granularity |-> row.granularity,
            country |-> row.country, state |-> row.state, city |-> row.city,
            cached_at |-> row.cached_at]>>

\* GeocodingCache.get: <<>> for None, <<dict>> for a hit
CacheGet(rows, open, lat, lon, precision) ==
    IF ~open THEN <<>>
    ELSE LET found == RowsAt(rows, Round(lat, precision), Round(lon, precision)) IN
         IF found = {} THEN <<>>
         ELSE LET row == CHOOSE r \in found : TRUE IN
              <<[location_name |-> row.location_name, granularity |-> row.granularity,
                 country |-> row.country, state |-> row.state, city |-> row.city,
                 cached_at |-> row.cached_at]>>

\* set with a plain INSERT that keeps the row already stored at the key
CacheSetKeepOld(rows, open, lat, lon, location_data, precision, now) ==
    IF ~open THEN rows
    ELSE IF RowsAt(rows, Round(lat, precision), Round(lon, precision)) # {} THEN rows
    ELSE rows \cup
             {[latitude |-> Round(lat, precision), longitude |-> Round(lon, precision),
               location_name |-> DictGet(location_data, "location_name"),
               granularity |-> DictGet(location_data, "granularity"),
               country |-> DictGet(location_data, "country"),
               state |-> DictGet(location_data, "state"),
               city |-> DictGet(location_data, "city"),
               cached_at |-> now]}

\* a set that stores the row at the coordinates as they were given
CacheSetUnrounded(rows, open, lat, lon, location_data, precision, now) ==
    IF ~open THEN rows
    ELSE (rows \ RowsAt(rows, lat, lon)) \cup
             {[latitude |-> lat, longitude |-> lon,
               location_name |-> DictGet(location_data, "location_name"),
               granularity |-> DictGet(location_data, "granularity"),
               country |-> DictGet(location_data, "country"),
               state |-> DictGet(location_data, "state"),
               city |-> DictGet(location_data, "city"),
               cached_at |-> now]}

\* GeocodingCache.set: INSERT OR REPLACE at the rounded key (primary key
\* latitude, longitude); the rows after the commit
CacheSet(rows, open, lat, lon, location_data, precision, now) ==
    IF ~open THEN rows
    ELSE (rows \ RowsAt(rows, Round(lat, precision), Round(lon, precision))) \cup
             {[latitude |-> Round(lat, precision), longitude |-> Round(lon, precision),
               location_name |-> DictGet(location_data, "location_name"),
               granularity |-> DictGet(location_data, "granularity"),
               country |-> DictGet(location_data, "country"),
               state |-> DictGet(location_data, "state"),
               city |-> DictGet(location_data, "city"),
               cached_at |-> now]}

-----------------------------------------------------------------------------
(* The cache as a state machine: set and get calls at any precision *)

MaxSets == 3

T_Location1 == <<"L", "o", "c", "a", "t", "i", "o", "n", "1">>
T_Location2 == <<"L", "o", "c", "a", "t", "i", "o", "n", "2">>
T_SF == <<"S", "F">>
T_Oakland == <<"O", "a", "k", "l", "a", "n", "d">>
T_CA == <<"C", "A">>

\* 37.77490 -122.41940, 37.77491 -122.41941 (the same key at precision 4) and
\* 37.77496 -122.41940 (another key at precision 4), in 10^-5 degrees
Coords == {<<3777490, -12241940>>, <<3777491, -12241941>>, <<3777496, -12241940>>}

Precisions == {DefaultPrecision, DefaultPrecision + 1}

\* the location_data dicts given to set
CacheData ==
    {[location_name |-> T_Location1, granularity |-> "city", country |-> T_US,
      state |-> T_CA, city |-> T_SF],
     [location_name |-> T_Location2, granularity |-> "state", country |-> T_US,
      state |-> T_CA, city |-> T_Oakland]}

InitCache ==
    /\ RateIdle
    /\ parkOrder = <<>>
    /\ apiKey = FALSE
    /\ cache = {}
    /\ conn = TRUE
    /\ clock = 0
    /\ sets = <<>>
    /\ got = <<>>
    /\ RulesIdle
    /\ ClassifyIdle
    /\ OrganizeIdle

\* cache.set(lat, lon, location_data, precision)
SetCall ==
    /\ Len(sets) < MaxSets
    /\ \E c \in Coords, p \in Precisions, d \in CacheData :
           /\ cache' = CacheSet(cache, conn, c[1], c[2], d, p, clock + 1)
           /\ sets' = Append(sets, [lat |-> c[1], lon |-> c[2], precision |-> p, data |-> d])
    /\ clock' = clock + 1
    /\ UNCHANGED <<conn, got, procVars, rateVars, rulesVars, classifyVars, organizeVars>>

\* cache.get(lat, lon, precision)
GetCall ==
    /\ \E c \in Coords, p \in Precisions :
           got' = <<[lat |-> c[1], lon |-> c[2], precision |-> p,
                     value |-> CacheGet(cache, conn, c[1], c[2], p)]>>
    /\ UNCHANGED <<cacheVars, sets, procVars, rateVars, rulesVars, classifyVars, organizeVars>>

NextCache ==
    \/ SetCall
    \/ GetCall

SpecCache == InitCache /\ [][NextCache]_vars

-----------------------------------------------------------------------------
(* Claims about the cache (SpecCache) *)

\* the data of a dict returned by get (its cached_at left out)
DataOf(value) ==
    [location_name |-> value.location_name, granularity |-> value.granularity,
     country |-> value.country, state |-> value.state, city |-> value.city]

\* the positions in the history of the set calls that Match(call) selects
Selected(Match(_)) == {i \in 1..Len(sets) : Match(sets[i])}

\* <<>> when no set call is selected, else <<data>> of the last one selected
LastSelected(Match(_)) ==
    IF Selected(Match) = {} THEN <<>>
    ELSE <<sets[CHOOSE i \in Selected(Match) : \A j \in Selected(Match) : j <= i].data>>

\* the value get(lat, lon, p) returns now, as <<>> or <<data>>
GetNow(lat, lon, p) ==
    LET v == CacheGet(cache, conn, lat, lon, p) IN
    IF v = <<>> THEN <<>> ELSE <<DataOf(v[1])>>

OneRowPerKey ==
    \A r1, r2 \in cache :
        (r1.latitude = r2.latitude /\ r1.longitude = r2.longitude) => r1 = r2

\* C2 as stated: get(lat, lon, p) returns the data of the most recent set whose
\* coordinates round at precision p to the key of (lat, lon), None when there
\* was none; and the store never holds two rows for one rounded key
C2_GetReturnsLastSetAtP ==
    /\ OneRowPerKey
    /\ \A c \in Coords, p \in Precisions :
           GetNow(c[1], c[2], p) =
               LastSelected(LAMBDA call :
                   /\ Round(call.lat, p) = Round(c[1], p)
                   /\ Round(call.lon, p) = Round(c[2], p))

\* C2 amended: get(lat, lon, p) returns the data of the most recent set whose
\* coordinates, rounded at the precision of that set call, equal (lat, lon)
\* rounded at p, None when there was none; and the store never holds two rows
\* for one rounded key
C2_GetReturnsLastStored ==
    /\ OneRowPerKey
    /\ \A c \in Coords, p \in Precisions :
           GetNow(c[1], c[2], p) =
               LastSelected(LAMBDA call :
                   /\ Round(call.lat, call.precision) = Round(c[1], p)
                   /\ Round(call.lon, call.precision) = Round(c[2], p))

\* C2 witness: after two sets to one rounded key at the default precision, a
\* get at other coordinates of that key returned the data of the second set
C2_Witness ==
    /\ Len(sets) = 2
    /\ sets[1].precision = DefaultPrecision
    /\ sets[2].precision = DefaultPrecision
    /\ sets[1].lat = 3777490
    /\ sets[2].lat = 3777490
    /\ sets[1].data.location_name = T_Location1
    /\ sets[2].data.location_name = T_Location2
    /\ got # <<>>
    /\ got[1].lat = 3777491
    /\ got[1].precision = DefaultPrecision
    /\ got[1].value # <<>>
    /\ got[1].value[1].location_name = T_Location2

-----------------------------------------------------------------------------
(* LocationIntelligence: geocoding and get_location_name *)

\* what a provider's reverse-geocoding answer holds under "address"; a key
\* that is absent reads as '' (address.get(key) or ..., address.get(key, ''))
RawAddress(country, state, province, region, city, town, village, municipality, county) ==
    [country |-> country, state |-> state, province |-> province, region |-> region,
     city |-> city, town |-> town, village |-> village, municipality |-> municipality,
     county |-> county]

\* a or b or ... or '' of Python over texts
FirstTruthy(texts) ==
    IF \E i \in 1..Len(texts) : texts[i] # T_Empty
    THEN texts[CHOOSE i \in 1..Len(texts) :
                  /\ texts[i] # T_Empty
                  /\ \A j \in 1..(i - 1) : texts[j] = T_Empty]
    ELSE T_Empty

\* _parse_geocode_result
ParseGeocodeResult(a) ==
    [country |-> a.country,
     state |-> FirstTruthy(<<a.state, a.province, a.region>>),
     city |-> FirstTruthy(<<a.city, a.town, a.village, a.municipality>>),
     county |-> a.county]

\* the exception a provider call raises for each kind of failure, and the
\* classes each exception is an instance of
ExceptionOf(provider, kind) ==
    IF provider = "locationiq"
    THEN CASE kind = "timeout" -> "requests.Timeout"
           [] kind = "transport" -> "requests.ConnectionError"
           [] kind = "service" -> "requests.HTTPError"
    ELSE CASE kind = "timeout" -> "GeocoderTimedOut"
           [] kind = "transport" -> "GeocoderUnavailable"
           [] kind = "service" -> "GeocoderQuotaExceeded"

ClassesOf(exception) ==
    CASE exception = "GeocoderTimedOut" ->
             {"GeocoderTimedOut", "GeocoderServiceError", "GeopyError", "Exception"}
      [] exception = "GeocoderUnavailable" ->
             {"GeocoderUnavailable", "GeocoderServiceError", "GeopyError", "Exception"}
      [] exception = "GeocoderQuotaExceeded" ->
             {"GeocoderQuotaExceeded", "GeocoderServiceError", "GeopyError", "Exception"}
      [] OTHER -> {exception, "requests.RequestException", "Exception"}

\* _geocode_nominatim catching the time-out alone
NominatimHandlersTimeoutOnly == {"GeocoderTimedOut"}

\* except Exception (LocationIQ), except (GeocoderTimedOut, GeocoderServiceError)
LocationIQHandlers == {"Exception"}
NominatimHandlers == {"GeocoderTimedOut", "GeocoderServiceError"}

\* _geocode_locationiq for the answer o of the service: the parsed address
\* as <<dict>>, <<>> for None, or an exception that leaves the method
GeocodeLocationIQ(o) ==
    IF o.kind = "ok"
    THEN [data |-> <<ParseGeocodeResult(o.address)>>, raised |-> FALSE]
    ELSE [data |-> <<>>,
          raised |-> ClassesOf(ExceptionOf("locationiq", o.kind)) \cap LocationIQHandlers = {}]

\* _geocode_nominatim for the answer o of the service; kind "none" is
\* reverse() returning no location
GeocodeNominatim(o) ==
    IF o.kind = "ok"
    THEN [data |-> <<ParseGeocodeResult(o.address)>>, raised |-> FALSE]
    ELSE IF o.kind = "none"
    THEN [data |-> <<>>, raised |-> FALSE]
    ELSE [data |-> <<>>,
          raised |-> ClassesOf(ExceptionOf("nominatim", o.kind)) \cap NominatimHandlers = {}]

\* _geocode: LocationIQ when a key is configured, then Nominatim; calls are
\* the providers invoked, in order
Geocode(key, o1, o2) ==
    LET r1 == GeocodeLocationIQ(o1)
        r2 == GeocodeNominatim(o2)
    IN  IF key /\ r1.raised
        THEN [data |-> <<>>, raised |-> TRUE, calls |-> <<"locationiq">>]
        ELSE IF key /\ r1.data # <<>>
        THEN [data |-> r1.data, raised |-> FALSE, calls |-> <<"locationiq">>]
        ELSE [data |-> r2.data, raised |-> r2.raised,
              calls |-> IF key THEN <<"locationiq", "nominatim">> ELSE <<"nominatim">>]

\* get_location_name that invokes the first provider before it reads the cache
GetLocationNameNoShortCircuit(rows, open, now, key, order, lat, lon, o1, o2) ==
    LET cached == CacheGet(rows, open, lat, lon, DefaultPrecision)
        g == Geocode(key, o1, o2)
    IN  IF cached # <<>>
        THEN [outcome |-> "hit", result |-> <<cached[1].location_name>>,
              calls |-> IF key THEN <<"locationiq">> ELSE <<"nominatim">>, rows |-> rows]
        ELSE IF g.raised
        THEN [outcome |-> "raised", result |-> <<>>, calls |-> g.calls, rows |-> rows]
        ELSE IF g.data = <<>>
        THEN [outcome |-> "nodata", result |-> <<T_Unknown>>, calls |-> g.calls, rows |-> rows]
        ELSE LET r == ApplyGranularityRules(g.data[1], order) IN
             [outcome |-> "classified", result |-> <<r.name>>, calls |-> g.calls,
              rows |-> CacheSet(rows, open, lat, lon,
                                [country |-> g.data[1].country, state |-> g.data[1].state,
                                 city |-> g.data[1].city, county |-> g.data[1].county,
                                 granularity |-> r.granularity, location_name |-> r.name],
                                DefaultPrecision, now)]

\* get_location_name that stores its "Unknown" answer when no provider
\* yields address data
GetLocationNameCachesNoData(rows, open, now, key, order, lat, lon, o1, o2) ==
    LET cached == CacheGet(rows, open, lat, lon, DefaultPrecision)
        g == Geocode(key, o1, o2)
    IN  IF cached # <<>>
        THEN [outcome |-> "hit", result |-> <<cached[1].location_name>>,
              calls |-> <<>>, rows |-> rows]
        ELSE IF g.raised
        THEN [outcome |-> "raised", result |-> <<>>, calls |-> g.calls, rows |-> rows]
        ELSE IF g.data = <<>>
        THEN [outcome |-> "nodata", result |-> <<T_Unknown>>, calls |-> g.calls,
              rows |-> CacheSet(rows, open, lat, lon,
                                [location_name |-> T_Unknown, granularity |-> "unknown"],
                                DefaultPrecision, now)]
        ELSE LET r == ApplyGranularityRules(g.data[1], order) IN
             [outcome |-> "classified", result |-> <<r.name>>, calls |-> g.calls,
              rows |-> CacheSet(rows, open, lat, lon,
                                [country |-> g.data[1].country, state |-> g.data[1].state,
                                 city |-> g.data[1].city, county |-> g.data[1].county,
                                 granularity |-> r.granularity, location_name |-> r.name],
                                DefaultPrecision, now)]

\* get_location_name(lat, lon): how the call ends (a cache hit, no address
\* data, a classification, or an exception), what it returns, the providers
\* it invoked and the rows of the cache after it
GetLocationName(rows, open, now, key, order, lat, lon, o1, o2) ==
    LET cached == CacheGet(rows, open, lat, lon, DefaultPrecision)
        g == Geocode(key, o1, o2)
    IN  IF cached # <<>>
        THEN [outcome |-> "hit", result |-> <<cached[1].location_name>>,
              calls |-> <<>>, rows |-> rows]
        ELSE IF g.raised
        THEN [outcome |-> "raised", result |-> <<>>, calls |-> g.calls, rows |-> rows]
        ELSE IF g.data = <<>>
        THEN [outcome |-> "nodata", result |-> <<T_Unknown>>, calls |-> g.calls, rows |-> rows]
        ELSE LET r == ApplyGranularityRules(g.data[1], order) IN
             [outcome |-> "classified", result |-> <<r.name>>, calls |-> g.calls,
              rows |-> CacheSet(rows, open, lat, lon,
                                [country |-> g.data[1].country, state |-> g.data[1].state,
                                 city |-> g.data[1].city, county |-> g.data[1].county,
                                 granularity |-> r.granularity, location_name |-> r.name],
                                DefaultPrecision, now)]

-----------------------------------------------------------------------------
(* The classifier as a state machine: get_location_name calls, by one        *)
(* process and by later ones, on a cache file that starts empty              *)

MaxClassify == 3

\* answers of the services: one without address fields, a US village without
\* a state, a foreign town given as town, and a US county naming two parks
\* with its state given as region
RawAddresses ==
    {RawAddress(T_Empty, T_Empty, T_Empty, T_Empty, T_Empty, T_Empty, T_Empty, T_Empty, T_Empty),
     RawAddress(T_USA, T_Empty, T_Empty, T_Empty, T_Empty, T_Empty, T_SmallTown, T_Empty, T_Empty),
     RawAddress(T_France, T_Empty, T_Empty, T_Empty, T_Empty, T_SmallTown, T_Empty, T_Empty, T_Empty),
     RawAddress(T_UnitedStates, T_Empty, T_Empty, T_California, T_Empty, T_Empty, T_Empty,
                T_Empty, T_SequoiaKings)}

NoAddress ==
    RawAddress(T_Empty, T_Empty, T_Empty, T_Empty, T_Empty, T_Empty, T_Empty, T_Empty, T_Empty)

\* no provider is consulted
NoAnswer == [kind |-> "none", address |-> NoAddress]

FailureKinds == {"timeout", "transport", "service"}

LocationIQOutcomes ==
    {[kind |-> "ok", address |-> a] : a \in RawAddresses}
        \cup {[kind |-> k, address |-> NoAddress] : k \in FailureKinds}

NominatimOutcomes ==
    {[kind |-> "ok", address |-> a] : a \in RawAddresses}
        \cup {[kind |-> k, address |-> NoAddress] : k \in FailureKinds \cup {"none"}}

InitClassify ==
    /\ RateIdle
    /\ parkOrder \in ParkOrders
    /\ apiKey \in BOOLEAN
    /\ cache = {}
    /\ conn = TRUE
    /\ clock = 0
    /\ RulesIdle
    /\ CacheApiIdle
    /\ ClassifyIdle
    /\ OrganizeIdle

\* the answers a call can read: none on a cache hit, LocationIQ's only with a
\* key, Nominatim's only when LocationIQ gave no data
AnswersRead(c) ==
    IF CacheGet(cache, conn, c[1], c[2], DefaultPrecision) # <<>>
    THEN {<<[kind |-> "none", address |-> NoAddress], [kind |-> "none", address |-> NoAddress]>>}
    ELSE IF ~apiKey
    THEN {<<[kind |-> "none", address |-> NoAddress], o2>> : o2 \in NominatimOutcomes}
    ELSE {<<o1, [kind |-> "none", address |-> NoAddress]>> :
              o1 \in {o \in LocationIQOutcomes : o.kind = "ok"}}
         \cup {<<o1, o2>> : o1 \in {o \in LocationIQOutcomes : o.kind # "ok"},
                            o2 \in NominatimOutcomes}

\* one call of get_location_name(lat, lon), the services answering o[1]
\* (LocationIQ) and o[2] (Nominatim)
Classify ==
    /\ callNo < MaxClassify
    /\ \E c \in Coords :
         \E o \in AnswersRead(c) :
           \E r \in {GetLocationName(cache, conn, clock + 1, apiKey, parkOrder,
                                     c[1], c[2], o[1], o[2])} :
               /\ query' = <<[lat |-> c[1], lon |-> c[2]]>>
               /\ outcome' = r.outcome
               /\ result' = r.result
               /\ calls' = r.calls
               /\ cache' = r.rows
               /\ answered' = <<[key |-> apiKey, o1 |-> o[1], o2 |-> o[2]]>>
    /\ callNo' = callNo + 1
    /\ clock' = clock + 1
    /\ prevCall' = IF query = <<>> THEN <<>>
                   ELSE <<[lat |-> query[1].lat, lon |-> query[1].lon, outcome |-> outcome]>>
    /\ UNCHANGED <<conn, procVars, rateVars, rulesVars, cacheApiVars, organizeVars>>

NextClassify ==
    \/ Classify
    \/ NewProcess

SpecClassify == InitClassify /\ [][NextClassify]_vars

-----------------------------------------------------------------------------
(* Claims about the classifier (SpecClassify) *)

Called == callNo > 0

\* the row stored at the default-precision key of the last call's coordinates
RowsOfQuery ==
    {row \in cache : /\ row.latitude = Round(query[1].lat, DefaultPrecision)
                     /\ row.longitude = Round(query[1].lon, DefaultPrecision)}

\* the call before the last one was made for coordinates of the same key
SameKeyAsBefore ==
    /\ prevCall # <<>>
    /\ Round(prevCall[1].lat, DefaultPrecision) = Round(query[1].lat, DefaultPrecision)
    /\ Round(prevCall[1].lon, DefaultPrecision) = Round(query[1].lon, DefaultPrecision)

\* C3 as stated: the cache never holds an entry whose location_name is "Unknown"
C3_NoUnknownEntry ==
    \A row \in cache : row.location_name # T_Unknown

\* C3 amended: an entry named "Unknown" is created only from address data that
\* the rules classify as "Unknown" (an empty country, or a US address with an
\* empty state); a call that obtained no address data creates no entry
C3_UnknownOnlyFromAddressData ==
    /\ \A row \in cache :
           row.location_name = T_Unknown =>
               \/ row.granularity = "country" /\ row.country = T_Empty
               \/ row.granularity = "state" /\ DenotesUS(row.country) /\ row.state = T_Empty
    /\ (Called /\ outcome = "nodata") => \A row \in cache : row.cached_at # clock

\* C3 witness: a call classified an answer without address fields and stored it
C3_Witness ==
    /\ Called
    /\ outcome = "classified"
    /\ result = <<T_Unknown>>
    /\ \E row \in RowsOfQuery :
           /\ row.location_name = T_Unknown
           /\ row.granularity = "country"
           /\ row.cached_at = clock

\* C4: a call that misses the cache and gets address data from no provider
\* returns "Unknown" and leaves the cache as it was, and the next call for the
\* same coordinates invokes the providers again
C4_NoDataNotCached ==
    /\ [][(callNo' = callNo + 1 /\ outcome' = "nodata") =>
              (result' = <<T_Unknown>> /\ cache' = cache)]_vars
    /\ []((Called /\ prevCall # <<>> /\ prevCall[1].outcome = "nodata"
              /\ prevCall[1].lat = query[1].lat /\ prevCall[1].lon = query[1].lon)
             => (outcome # "hit" /\ calls # <<>>))

\* C4 witness: two calls in a row for one coordinate pair got no address
\* data, and the second invoked a provider
C4_Witness ==
    /\ Called
    /\ prevCall # <<>>
    /\ prevCall[1].outcome = "nodata"
    /\ prevCall[1].lat = query[1].lat
    /\ prevCall[1].lon = query[1].lon
    /\ outcome = "nodata"
    /\ result = <<T_Unknown>>
    /\ calls # <<>>
    /\ RowsOfQuery = {}

C6_ProviderChain ==
    (Called /\ outcome # "hit") =>
        LET a == answered[1] IN
        /\ outcome # "raised"
        /\ ~a.key => calls = <<"nominatim">>
        /\ (a.key /\ a.o1.kind = "ok") => calls = <<"locationiq">>
        /\ (a.key /\ a.o1.kind # "ok") => calls = <<"locationiq", "nominatim">>
        /\ ((a.key => a.o1.kind # "ok") /\ a.o2.kind # "ok")
               => (outcome = "nodata" /\ result = <<T_Unknown>>)

\* C6 witness: with a key configured LocationIQ timed out, Nominatim failed
\* with a transport error, and the call returned "Unknown"
C6_Witness ==
    /\ Called
    /\ answered[1].key
    /\ answered[1].o1.kind = "timeout"
    /\ answered[1].o2.kind = "transport"
    /\ calls = <<"locationiq", "nominatim">>
    /\ outcome = "nodata"
    /\ result = <<T_Unknown>>

-----------------------------------------------------------------------------
(* GeocodingCache on a storage that can fail: a statement of sqlite3 raises  *)
(* a sqlite3.Error (database locked, disk I/O error, malformed file)         *)

\* the classes a failed statement's exception is an instance of
StorageErrorClasses == {"sqlite3.OperationalError", "sqlite3.DatabaseError", "sqlite3.Error",
                        "Exception"}

\* set with no except clause
SetHandlersNone == {}

\* get runs its statements outside any try; set catches sqlite3.Error
GetHandlers == {}
SetHandlers == {"sqlite3.Error"}

\* GeocodingCache.get when the SELECT can fail: None when closed, the
\* exception when the read fails, else the answer of get
CacheGetIO(rows, open, readable, lat, lon, precision) ==
    IF ~open THEN [raised |-> FALSE, value |-> <<>>]
    ELSE IF ~readable
    THEN [raised |-> StorageErrorClasses \cap GetHandlers = {}, value |-> <<>>]
    ELSE [raised |-> FALSE, value |-> CacheGet(rows, open, lat, lon, precision)]

\* GeocodingCache.set when the INSERT or the commit can fail: the failure is
\* caught and rolled back, the rows stay as they were
CacheSetIO(rows, open, writable, lat, lon, location_data, precision, now) ==
    IF ~open THEN [raised |-> FALSE, rows |-> rows]
    ELSE IF ~writable
    THEN [raised |-> StorageErrorClasses \cap SetHandlers = {}, rows |-> rows]
    ELSE [raised |-> FALSE,
          rows |-> CacheSet(rows, open, lat, lon, location_data, precision, now)]

\* clear_unknown deleting every row
ClearUnknownAll(rows, open) ==
    IF ~open THEN [count |-> 0, rows |-> rows]
    ELSE [count |-> Cardinality(rows), rows |-> {}]

\* GeocodingCache.clear_unknown: the count it returns and the rows it leaves
ClearUnknown(rows, open) ==
    IF ~open THEN [count |-> 0, rows |-> rows]
    ELSE [count |-> Cardinality({row \in rows : row.location_name = T_Unknown}),
          rows |-> {row \in rows : row.location_name # T_Unknown}]

\* get_location_name on such a storage: a failed read leaves the call as an
\* exception; a failed write is swallowed by set and the name is returned
GetLocationNameIO(rows, open, now, key, order, lat, lon, o1, o2, readable, writable) ==
    LET r == GetLocationName(rows, open, now, key, order, lat, lon, o1, o2) IN
    IF CacheGetIO(rows, open, readable, lat, lon, DefaultPrecision).raised
    THEN [outcome |-> "raised", result |-> <<>>, calls |-> <<>>, rows |-> rows]
    ELSE IF r.outcome # "classified" THEN r
    ELSE IF CacheSetIO(rows, open, writable, lat, lon, <<>>, DefaultPrecision, now).raised
    THEN [outcome |-> "raised", result |-> <<>>, calls |-> r.calls, rows |-> rows]
    ELSE IF open /\ ~writable THEN [r EXCEPT !.rows = rows]
    ELSE r

-----------------------------------------------------------------------------
(* The cache and the classifier on a failing storage, as a state machine:    *)
(* got holds the last call, its inputs, the rows before it and its answer    *)

MaxStorageCalls == 3

\* two coordinates of different keys
StorageCoords == {<<3777490, -12241940>>, <<3777496, -12241940>>}

\* location_data given to set: a named place and an "Unknown" one
StorageData ==
    {[location_name |-> T_Location1, granularity |-> "city", country |-> T_US,
      state |-> T_CA, city |-> T_SF],
     [location_name |-> T_Unknown, granularity |-> "country", country |-> T_Empty,
      state |-> T_Empty, city |-> T_Empty]}

\* what Nominatim answers: a town in France, an address without fields
StorageAnswers ==
    {o \in NominatimOutcomes : o.kind = "ok" /\ o.address.country \in {T_Empty, T_France}}

InitStorage ==
    /\ RateIdle
    /\ parkOrder = <<T_Sequoia, T_KingsCanyon>>
    /\ apiKey = FALSE
    /\ cache = {}
    /\ conn = TRUE
    /\ clock = 0
    /\ sets = <<>>
    /\ got = <<>>
    /\ RulesIdle
    /\ ClassifyIdle
    /\ OrganizeIdle

StorageFrame ==
    /\ callNo' = callNo + 1
    /\ clock' = clock + 1
    /\ UNCHANGED <<sets, procVars, rateVars, rulesVars, organizeVars>>
    /\ UNCHANGED <<query, outcome, result, calls, answered, prevCall>>

\* cache.get(lat, lon) while the storage can or cannot be read
StorageGet ==
    /\ callNo < MaxStorageCalls
    /\ \E c \in StorageCoords, readable \in BOOLEAN :
         \E r \in {CacheGetIO(cache, conn, readable, c[1], c[2], DefaultPrecision)} :
             got' = <<[op |-> "get", open |-> conn, readable |-> readable,
                       writable |-> TRUE, before |-> cache, raised |-> r.raised,
                       value |-> r.value]>>
    /\ UNCHANGED <<cache, conn>>
    /\ StorageFrame

\* cache.set(lat, lon, location_data) while the storage can or cannot be written
StorageSet ==
    /\ callNo < MaxStorageCalls
    /\ \E c \in StorageCoords, d \in StorageData, writable \in BOOLEAN :
         \E r \in {CacheSetIO(cache, conn, writable, c[1], c[2], d, DefaultPrecision,
                              clock + 1)} :
             /\ cache' = r.rows
             /\ got' = <<[op |-> "set", open |-> conn, readable |-> TRUE,
                          writable |-> writable, before |-> cache, raised |-> r.raised,
                          value |-> <<>>]>>
    /\ UNCHANGED conn
    /\ StorageFrame

\* cache.clear_unknown()
StorageClearUnknown ==
    /\ callNo < MaxStorageCalls
    /\ \E r \in {ClearUnknown(cache, conn)} :
         /\ cache' = r.rows
         /\ got' = <<[op |-> "clear_unknown", open |-> conn, readable |-> TRUE,
                      writable |-> TRUE, before |-> cache, raised |-> FALSE,
                      value |-> <<r.count>>]>>
    /\ UNCHANGED conn
    /\ StorageFrame

\* cache.close()
StorageClose ==
    /\ callNo < MaxStorageCalls
    /\ conn
    /\ conn' = FALSE
    /\ got' = <<[op |-> "close", open |-> conn, readable |-> TRUE, writable |-> TRUE,
                 before |-> cache, raised |-> FALSE, value |-> <<>>]>>
    /\ UNCHANGED cache
    /\ StorageFrame

\* get_location_name(lat, lon) while the storage can or cannot be read and
\* written, Nominatim answering o2
StorageClassify ==
    /\ callNo < MaxStorageCalls
    /\ \E c \in StorageCoords, o2 \in StorageAnswers, readable \in BOOLEAN,
          writable \in BOOLEAN :
         \E r \in {GetLocationNameIO(cache, conn, clock + 1, apiKey, parkOrder, c[1], c[2],
                                     NoAnswer, o2, readable, writable)} :
             /\ cache' = r.rows
             /\ got' = <<[op |-> "classify", open |-> conn, readable |-> readable,
                          writable |-> writable, before |-> cache,
                          raised |-> r.outcome = "raised",
                          value |-> <<[outcome |-> r.outcome, result |-> r.result,
                                       answer |-> o2]>>]>>
    /\ UNCHANGED conn
    /\ StorageFrame

NextStorage ==
    \/ StorageGet
    \/ StorageSet
    \/ StorageClearUnknown
    \/ StorageClose
    \/ StorageClassify

SpecStorage == InitStorage /\ [][NextStorage]_vars

-----------------------------------------------------------------------------
(* Claims about the cache on a failing storage (SpecStorage) *)

\* the last call was op
LastCall(op) == got # <<>> /\ got[1].op = op

\* C13 as stated: get never raises, and returns None when the storage cannot
\* be read or the cache is closed
C13_GetNeverRaises ==
    LastCall("get") =>
        /\ ~got[1].raised
        /\ (~got[1].readable \/ ~got[1].open) => got[1].value = <<>>

\* C14: a set whose write fails returns without raising and leaves the rows
\* as they were before the call, and the get_location_name call whose set
\* failed still returns the name the rules gave
C14_SetFailureSwallowed ==
    /\ (LastCall("set") /\ got[1].open /\ ~got[1].writable) =>
           /\ ~got[1].raised
           /\ cache = got[1].before
    /\ (/\ LastCall("classify")
        /\ got[1].open
        /\ got[1].readable
        /\ ~got[1].writable
        /\ CacheGet(got[1].before, TRUE, 3777490, -12241940, DefaultPrecision) = <<>>
        /\ CacheGet(got[1].before, TRUE, 3777496, -12241940, DefaultPrecision) = <<>>) =>
           /\ ~got[1].raised
           /\ got[1].value[1].outcome = "classified"
           /\ got[1].value[1].result =
                  <<IF got[1].value[1].answer.address.country = T_France
                    THEN T_France ELSE T_Unknown>>
           /\ cache = got[1].before

\* C14 witness: the rows held an entry, a get_location_name call for another
\* key classified a town in France, its write failed, and it returned "France"
C14_Witness ==
    /\ LastCall("classify")
    /\ got[1].open
    /\ got[1].readable
    /\ ~got[1].writable
    /\ ~got[1].raised
    /\ got[1].before # {}
    /\ cache = got[1].before
    /\ got[1].value[1].outcome = "classified"
    /\ got[1].value[1].result = <<T_France>>

\* what C15 says of a clear_unknown call: the rows it leaves are those not
\* named "Unknown", it returns how many it removed, and with no entry named
\* "Unknown" it returns 0 and changes nothing
RemovedExactlyUnknown ==
    /\ \A row \in got[1].before :
           row \in cache <=> row.location_name # T_Unknown
    /\ cache \subseteq got[1].before
    /\ got[1].value = <<Cardinality(got[1].before) - Cardinality(cache)>>
    /\ (\A row \in got[1].before : row.location_name # T_Unknown) =>
           (got[1].value = <<0>> /\ cache = got[1].before)

\* C15: clear_unknown removes exactly the entries named "Unknown", returns
\* their number and leaves every other entry as it was, and with no such entry
\* it returns 0 and changes nothing; called on a cache that was closed, it
\* has no entry to look at: it returns 0 and changes nothing
C15_ClearUnknown ==
    LastCall("clear_unknown") =>
        /\ got[1].open => RemovedExactlyUnknown
        /\ ~got[1].open => (got[1].value = <<0>> /\ cache = got[1].before)

\* C15 witness: of an "Unknown" entry and a named one, clear_unknown removed
\* the first, kept the second and returned 1
C15_Witness ==
    /\ LastCall("clear_unknown")
    /\ got[1].open
    /\ Cardinality(got[1].before) = 2
    /\ got[1].value = <<1>>
    /\ Cardinality(cache) = 1
    /\ \A row \in cache : row.location_name = T_Location1

-----------------------------------------------------------------------------
(* The file system, as the organizer uses it.  A path is [dir, stem, suffix] *)
(* (parent directory, Path.stem, Path.suffix); a file's content is the       *)
(* sequence of its bytes.                                                    *)

\* Path.exists() of a file path
Exists(fs, path) == path \in DOMAIN fs

\* the file at path holds content afterwards (created or overwritten)
WriteFile(fs, path, content) ==
    [q \in DOMAIN fs \cup {path} |-> IF q = path THEN content ELSE fs[q]]

\* Path.unlink / os.unlink
Unlink(fs, path) == [q \in DOMAIN fs \ {path} |-> fs[q]]

\* os.rename(source, destination): the destination is replaced if it exists
Rename(fs, source, destination) ==
    WriteFile(Unlink(fs, source), destination, fs[source])

\* shutil.copy2(source, destination) that ran to its end
Copy2(fs, source, destination) == WriteFile(fs, destination, fs[source])

\* shutil.copy2 that raised after it had written the first bytes
Copy2Interrupted(fs, source, destination) ==
    WriteFile(fs, destination, SubSeq(fs[source], 1, Len(fs[source]) - 1))

\* Path.stat().st_size and calculate_file_hash (sha256 without collisions)
SizeOf(content) == Len(content)
CalculateFileHash(content) == content

\* a verification that compares the sizes only
VerifyFileIntegritySizeOnly(fs, source, destination) ==
    IF ~Exists(fs, source) \/ ~Exists(fs, destination) THEN FALSE
    ELSE SizeOf(fs[source]) = SizeOf(fs[destination])

\* verify_file_integrity(source, destination)
VerifyFileIntegrity(fs, source, destination) ==
    IF ~Exists(fs, source) \/ ~Exists(fs, destination) THEN FALSE
    ELSE IF SizeOf(fs[source]) # SizeOf(fs[destination]) THEN FALSE
    ELSE CalculateFileHash(fs[source]) = CalculateFileHash(fs[destination])

-----------------------------------------------------------------------------
(* PathGenerator *)

\* the text of a sequence of characters
RECURSIVE TextOf(_)
TextOf(s) == IF s = <<>> THEN "" ELSE s[1] \o TextOf(Tail(s))

\* f"{n:02d}" and f"{n:04d}" for the months, days and years of the model
Pad2(n) == IF n < 10 THEN "0" \o ToString(n) ELSE ToString(n)
Pad4(n) == IF n < 1000 THEN "0" \o ToString(n) ELSE ToString(n)

\* date_taken.strftime("%Y-%m-%d")
Strftime(d) == Pad4(d.year) \o "-" \o Pad2(d.month) \o "-" \o Pad2(d.day)

\* filename templates: the default, and one with the {counter} placeholder
DefaultPattern == <<"{date}", "_", "{original_name}", "{ext}">>
CounterPattern == <<"{original_name}", "{counter}", "{ext}">>

\* templates with the year, month and day placeholders, and with the name first
YmdPattern == <<"{year}", "{month}", "{day}", "_", "{original_name}", "{ext}">>
NameFirstPattern == <<"{original_name}", "_", "{date}", "{ext}">>

destination_root == "library"

\* the largest counter ensure_unique_path tries
MaxCounter == 1000

\* filename_pattern.format(...) for the tokens before the final {ext}
RECURSIVE FormatPattern(_, _)
FormatPattern(tokens, fields) ==
    IF tokens = <<>> THEN ""
    ELSE (CASE tokens[1] = "{date}" -> fields.date
            [] tokens[1] = "{year}" -> fields.year
            [] tokens[1] = "{month}" -> fields.month
            [] tokens[1] = "{day}" -> fields.day
            [] tokens[1] = "{original_name}" -> fields.original_name
            [] tokens[1] = "{counter}" -> fields.counter
            [] OTHER -> tokens[1])
         \o FormatPattern(Tail(tokens), fields)

\* date fields whose month and day are not padded
DateFieldsUnpadded(metadata, date_prefix) ==
    IF metadata.date_taken # <<>>
    THEN [year |-> Pad4(metadata.date_taken[1].year),
          month |-> ToString(metadata.date_taken[1].month),
          day |-> ToString(metadata.date_taken[1].day),
          date |-> date_prefix]
    ELSE [year |-> "Unknown", month |-> "Unknown", day |-> "Unknown", date |-> "Unknown"]

\* the date fields _generate_filename and ensure_unique_path substitute
DateFields(metadata, date_prefix) ==
    IF metadata.date_taken # <<>>
    THEN [year |-> Pad4(metadata.date_taken[1].year),
          month |-> Pad2(metadata.date_taken[1].month),
          day |-> Pad2(metadata.date_taken[1].day),
          date |-> date_prefix]
    ELSE [year |-> "Unknown", month |-> "Unknown", day |-> "Unknown", date |-> "Unknown"]

\* the file name a template with {ext} as its last token yields, as the stem
\* and the suffix of the resulting path
FormatFilename(pattern, metadata, date_prefix, counter) ==
    LET d == DateFields(metadata, date_prefix) IN
    [stem |-> FormatPattern(SubSeq(pattern, 1, Len(pattern) - 1),
                            [date |-> d.date, year |-> d.year, month |-> d.month,
                             day |-> d.day, original_name |-> metadata.file_path.stem,
                             counter |-> counter]),
     suffix |-> metadata.file_path.suffix]

\* _generate_filename
GenerateFilename(pattern, metadata, date_prefix) ==
    FormatFilename(pattern, metadata, date_prefix, "")

\* a path with a month component whether the date is known or not
GeneratePathAlwaysMonth(pattern, metadata, location_name) ==
    LET year == IF metadata.date_taken # <<>>
                THEN ToString(metadata.date_taken[1].year) ELSE "Unknown_Date"
        month == IF metadata.date_taken # <<>>
                 THEN Pad2(metadata.date_taken[1].month) ELSE ""
        date_prefix == IF metadata.date_taken # <<>>
                       THEN Strftime(metadata.date_taken[1]) ELSE "Unknown"
        location == IF location_name = <<>> \/ location_name = <<"">>
                    THEN "Unknown" ELSE location_name[1]
        filename == GenerateFilename(pattern, metadata, date_prefix)
    IN  [dir |-> destination_root \o "/" \o year \o "/" \o month \o "/" \o location,
         stem |-> filename.stem, suffix |-> filename.suffix]

\* generate_path(metadata, location_name); location_name is <<>> for None
GeneratePath(pattern, metadata, location_name) ==
    LET year == IF metadata.date_taken # <<>>
                THEN ToString(metadata.date_taken[1].year) ELSE "Unknown_Date"
        month == IF metadata.date_taken # <<>>
                 THEN Pad2(metadata.date_taken[1].month) ELSE ""
        date_prefix == IF metadata.date_taken # <<>>
                       THEN Strftime(metadata.date_taken[1]) ELSE "Unknown"
        location == IF location_name = <<>> \/ location_name = <<"">>
                    THEN "Unknown" ELSE location_name[1]
        dir_path == IF year = "Unknown_Date"
                    THEN destination_root \o "/" \o year \o "/" \o location
                    ELSE destination_root \o "/" \o year \o "/" \o month \o "/" \o location
        filename == GenerateFilename(pattern, metadata, date_prefix)
    IN  [dir |-> dir_path, stem |-> filename.stem, suffix |-> filename.suffix]

\* a candidate that is always stem_N, whatever the template
PathWithCounterFallbackOnly(pattern, target_path, metadata, counter) ==
    [dir |-> target_path.dir,
     stem |-> target_path.stem \o "_" \o ToString(counter),
     suffix |-> target_path.suffix]

\* a candidate whose number comes after the extension
PathWithCounterAfterExtension(pattern, target_path, metadata, counter) ==
    [dir |-> target_path.dir,
     stem |-> target_path.stem,
     suffix |-> target_path.suffix \o "_" \o ToString(counter)]

\* the path ensure_unique_path tries for a counter
PathWithCounter(pattern, target_path, metadata, counter) ==
    IF (\E i \in 1..Len(pattern) : pattern[i] = "{counter}") /\ metadata # <<>>
    THEN LET date == IF metadata[1].date_taken # <<>>
                     THEN Strftime(metadata[1].date_taken[1]) ELSE "Unknown"
             filename == FormatFilename(pattern, metadata[1], date,
                                        "_" \o ToString(counter))
         IN  [dir |-> target_path.dir, stem |-> filename.stem, suffix |-> filename.suffix]
    ELSE [dir |-> target_path.dir,
          stem |-> target_path.stem \o "_" \o ToString(counter),
          suffix |-> target_path.suffix]

\* ensure_unique_path that hands out the proposed path although it exists
EnsureUniquePathKeepsTarget(fs, pattern, target_path, metadata) ==
    [raised |-> FALSE, path |-> target_path]

\* ensure_unique_path that hands out the candidate of counter 1 unseen
EnsureUniquePathFirstCandidate(fs, pattern, target_path, metadata) ==
    IF ~Exists(fs, target_path) THEN [raised |-> FALSE, path |-> target_path]
    ELSE [raised |-> FALSE, path |-> PathWithCounter(pattern, target_path, metadata, 1)]

\* ensure_unique_path that settles for the last candidate when every counter
\* is taken
EnsureUniquePathLastCandidate(fs, pattern, target_path, metadata) ==
    IF ~Exists(fs, target_path) THEN [raised |-> FALSE, path |-> target_path]
    ELSE LET free == {n \in 1..MaxCounter :
                          ~Exists(fs, PathWithCounter(pattern, target_path, metadata, n))}
         IN  [raised |-> FALSE,
              path |-> PathWithCounter(pattern, target_path, metadata,
                                       IF free = {} THEN MaxCounter
                                       ELSE CHOOSE n \in free : \A m \in free : n <= m)]

\* ensure_unique_path(target_path, metadata): the proposed path when nothing
\* exists there, else the path of the first counter 1, 2, ... at which nothing
\* exists; ValueError when counters 1..MaxCounter are all taken.  Of the
\* counters 1..n+1 one is free when n files exist.
EnsureUniquePath(fs, pattern, target_path, metadata) ==
    IF ~Exists(fs, target_path) THEN [raised |-> FALSE, path |-> target_path]
    ELSE LET tried == 1..(IF Cardinality(DOMAIN fs) + 1 < MaxCounter
                          THEN Cardinality(DOMAIN fs) + 1 ELSE MaxCounter)
             free == {n \in tried :
                          ~Exists(fs, PathWithCounter(pattern, target_path, metadata, n))}
         IN  IF free = {} THEN [raised |-> TRUE, path |-> target_path]
             ELSE [raised |-> FALSE,
                   path |-> PathWithCounter(pattern, target_path, metadata,
                                            CHOOSE n \in free : \A m \in free : n <= m)]

-----------------------------------------------------------------------------
(* generate_path called with any metadata and location name *)

\* the files, capture dates and location names generate_path is called with:
\* a date or none, a name, the empty name or none
PathFiles ==
    {[dir |-> "inbox/a", stem |-> "IMG_1234", suffix |-> ".jpg"],
     [dir |-> "inbox/b", stem |-> "clip", suffix |-> ".MOV"]}

PathDates ==
    {<<>>} \cup {<<[year |-> y, month |-> m, day |-> d]>> :
                    y \in {1999, 2023, 2024}, m \in {1, 6, 12}, d \in {5, 15}}

PathPatterns == {DefaultPattern, CounterPattern, YmdPattern, NameFirstPattern}

PathLocations == {<<>>, <<"">>, <<"Unknown">>, <<"CA-San_Francisco">>}

PathMetadata ==
    {[file_path |-> f, date_taken |-> d, gps_coords |-> <<>>] :
        f \in PathFiles, d \in PathDates}

InitPath ==
    /\ RateIdle
    /\ exclude_patterns = <<>>
    /\ parkOrder = <<T_Sequoia, T_KingsCanyon>>
    /\ apiKey = FALSE
    /\ cache = {}
    /\ conn = TRUE
    /\ clock = 0
    /\ sets = <<>>
    /\ got = <<>>
    /\ RulesIdle
    /\ ClassifyIdle
    /\ files = <<>>
    /\ dirs = {}
    /\ mode = None
    /\ dry_run = FALSE
    /\ verify = FALSE
    /\ filename_pattern \in PathPatterns
    /\ media_files = <<>>
    /\ pc = "idle"
    /\ index = 0
    /\ target = <<>>
    /\ targets = <<>>
    /\ stats = None
    /\ transactions = <<>>
    /\ duplicates = <<>>
    /\ log_saves = <<>>
    /\ report_saves = <<>>

\* generate_path(metadata, location_name): got keeps the arguments, target
\* the path returned
GeneratePathCall ==
    /\ \E metadata \in PathMetadata, location_name \in PathLocations :
         /\ got' = <<[metadata |-> metadata, location_name |-> location_name]>>
         /\ target' = <<GeneratePath(filename_pattern, metadata, location_name)>>
    /\ UNCHANGED <<files, dirs, configVars, pc, index, targets, stats,
                   transactions, duplicates, log_saves, report_saves>>
    /\ UNCHANGED <<sets, procVars, rateVars, rulesVars, cacheVars, classifyVars>>

NextPath == GeneratePathCall

SpecPath == InitPath /\ [][NextPath]_vars

\* the digits of a number below ten thousand, and of one below a hundred
FourDigits(n) ==
    ToString(n \div 1000) \o ToString((n \div 100) % 10)
        \o ToString((n \div 10) % 10) \o ToString(n % 10)
TwoDigits(n) == ToString(n \div 10) \o ToString(n % 10)

\* the location component the call was to yield
SuppliedLocation ==
    IF got[1].location_name \in {<<>>, <<"">>} THEN "Unknown"
    ELSE got[1].location_name[1]

C20_WitnessDated ==
    /\ got # <<>>
    /\ got[1].metadata.date_taken # <<>>
    /\ got[1].location_name = <<"CA-San_Francisco">>
    /\ target[1].dir = "library/2023/01/CA-San_Francisco"

\* the date of the call as yyyy-mm-dd
IsoDate(d) == FourDigits(d.year) \o "-" \o TwoDigits(d.month) \o "-" \o TwoDigits(d.day)

\* C21: the name of the generated path is the template with its placeholders
\* substituted: date as yyyy-mm-dd, year in four digits, month and day in two,
\* original_name the stem of the source, ext the suffix of the source as it is
\* written, counter the empty text; without a capture date, date, year, month
\* and day all read "Unknown"
C21_PlannedFilename ==
    got # <<>> =>
        LET date_taken == got[1].metadata.date_taken
            known == date_taken # <<>>
            date == IF known THEN IsoDate(date_taken[1]) ELSE "Unknown"
            year == IF known THEN FourDigits(date_taken[1].year) ELSE "Unknown"
            month == IF known THEN TwoDigits(date_taken[1].month) ELSE "Unknown"
            day == IF known THEN TwoDigits(date_taken[1].day) ELSE "Unknown"
            original_name == got[1].metadata.file_path.stem
            ext == got[1].metadata.file_path.suffix
        IN  target[1].stem \o target[1].suffix =
                CASE filename_pattern = DefaultPattern ->
                         date \o "_" \o original_name \o ext
                  [] filename_pattern = CounterPattern ->
                         original_name \o "" \o ext
                  [] filename_pattern = YmdPattern ->
                         year \o month \o day \o "_" \o original_name \o ext
                  [] filename_pattern = NameFirstPattern ->
                         original_name \o "_" \o date \o ext

\* C21 witness: the year, month and day template gave 20230605_clip.MOV for
\* clip.MOV taken on 5 June 2023
C21_Witness ==
    /\ got # <<>>
    /\ filename_pattern = YmdPattern
    /\ got[1].metadata.date_taken = <<[year |-> 2023, month |-> 6, day |-> 5]>>
    /\ got[1].metadata.file_path.stem = "clip"
    /\ target[1].stem \o target[1].suffix = "20230605_clip.MOV"

\* C21 witness without a date: the same template gave
\* UnknownUnknownUnknown_clip.MOV
C21_WitnessUndated ==
    /\ got # <<>>
    /\ filename_pattern = YmdPattern
    /\ got[1].metadata.date_taken = <<>>
    /\ target[1].stem \o target[1].suffix = "UnknownUnknownUnknown_clip.MOV"

-----------------------------------------------------------------------------
(* ensure_unique_path called again and again for one proposed path, the     *)
(* returned path being occupied (or not) before the next call                *)

\* a template with the counter in the middle of the name
MidCounterPattern == <<"{original_name}", "{counter}", "_", "{date}", "{ext}">>

CollidePatterns == {DefaultPattern, CounterPattern, MidCounterPattern}

UsesCounterPlaceholder(pattern) == \E i \in 1..Len(pattern) : pattern[i] = "{counter}"

\* the file every call is made for
CollideMetadata ==
    [file_path |-> [dir |-> "inbox/a", stem |-> "IMG_1234", suffix |-> ".jpg"],
     date_taken |-> <<[year |-> 2023, month |-> 6, day |-> 15]>>,
     gps_coords |-> <<>>]

\* the path generate_path proposes for it under a template
Proposed(pattern) == GeneratePath(pattern, CollideMetadata, <<"CA">>)

\* the largest number in a name that lies in the directory before the calls
MaxNeighbour == 3

\* names that can lie in the target directory before the calls: the proposed
\* one, the proposed stem followed by a number, the name with a number in the
\* place of the counter
Neighbours(pattern) ==
    LET proposed == Proposed(pattern)
        stems == {proposed.stem}
                   \cup {proposed.stem \o "_" \o ToString(n) : n \in 1..MaxNeighbour}
                   \cup (IF pattern = MidCounterPattern
                         THEN {"IMG_1234_" \o ToString(n) \o "_2023-06-15" :
                                   n \in 1..MaxNeighbour}
                         ELSE {})
    IN  {[dir |-> proposed.dir, stem |-> stem, suffix |-> proposed.suffix] :
             stem \in stems}

\* a directory in which the proposed path and the candidates of the counters
\* 1..last all exist
Crowded(pattern, last) ==
    {Proposed(pattern)}
        \cup {PathWithCounter(pattern, Proposed(pattern), <<CollideMetadata>>, n) :
                  n \in 1..last}

\* the number of ensure_unique_path calls in a behaviour
MaxCollideCalls == 3

InitCollide ==
    /\ RateIdle
    /\ exclude_patterns = <<>>
    /\ parkOrder = <<T_Sequoia, T_KingsCanyon>>
    /\ apiKey = FALSE
    /\ cache = {}
    /\ conn = TRUE
    /\ clock = 0
    /\ sets = <<>>
    /\ got = <<>>
    /\ RulesIdle
    /\ ClassifyIdle
    /\ filename_pattern \in CollidePatterns
    /\ \E existing \in (SUBSET Neighbours(filename_pattern))
                          \cup {Crowded(filename_pattern, MaxCounter - 1),
                                Crowded(filename_pattern, MaxCounter)} :
         files = [q \in existing |-> <<"x">>]
    /\ dirs = {}
    /\ mode = None
    /\ dry_run = FALSE
    /\ verify = FALSE
    /\ media_files = <<>>
    /\ pc = "idle"
    /\ index = 0
    /\ target = <<>>
    /\ targets = <<>>
    /\ stats = None
    /\ transactions = <<>>
    /\ duplicates = <<>>
    /\ log_saves = <<>>
    /\ report_saves = <<>>

CollideFrame ==
    /\ UNCHANGED <<dirs, configVars, pc, index, targets, stats, transactions,
                   duplicates, log_saves, report_saves>>
    /\ UNCHANGED <<sets, procVars, rateVars, rulesVars, cacheVars>>
    /\ UNCHANGED <<query, outcome, result, calls, answered, prevCall>>

\* ensure_unique_path(target_path, metadata) for the proposed path; the
\* metadata can be left out when the template has no counter.  got keeps the
\* arguments and the paths that existed, target the path returned (nothing
\* when the call raised)
EnsureUniqueCall ==
    /\ callNo < MaxCollideCalls
    /\ \E metadata \in IF UsesCounterPlaceholder(filename_pattern)
                        THEN {<<CollideMetadata>>} ELSE {<<>>, <<CollideMetadata>>} :
       \E u \in {EnsureUniquePath(files, filename_pattern, Proposed(filename_pattern),
                                  metadata)} :
         /\ got' = <<[target_path |-> Proposed(filename_pattern), metadata |-> metadata,
                      before |-> DOMAIN files, raised |-> u.raised]>>
         /\ target' = IF u.raised THEN <<>> ELSE <<u.path>>
    /\ callNo' = callNo + 1
    /\ UNCHANGED files
    /\ CollideFrame

\* a file is put at the path the last call returned
PlaceFile ==
    /\ target # <<>>
    /\ files' = WriteFile(files, target[1], <<"x">>)
    /\ target' = <<>>
    /\ UNCHANGED <<got, callNo>>
    /\ CollideFrame

NextCollide ==
    \/ EnsureUniqueCall
    \/ PlaceFile

SpecCollide == InitCollide /\ [][NextCollide]_vars

\* a call of ensure_unique_path has returned a path that is not yet occupied
Returned == got # <<>> /\ target # <<>>

\* the name the template yields for counter _N, written out for the file of
\* the calls
Rerendered(pattern, n) ==
    [dir |-> "library/2023/06/CA",
     stem |-> CASE pattern = CounterPattern -> "IMG_1234" \o "_" \o ToString(n)
                [] pattern = MidCounterPattern ->
                       "IMG_1234" \o "_" \o ToString(n) \o "_2023-06-15"
                [] OTHER -> "",
     suffix |-> ".jpg"]

\* C22: ensure_unique_path returns the given path when nothing exists there;
\* when it exists and the template has the counter placeholder, it returns the
\* name rendered again with counter _N, in the same directory, for the smallest
\* N >= 1 at which nothing exists; the path returned never exists when the
\* call returns
C22_UniquePath ==
    Returned =>
        LET before == got[1].before
            given == got[1].target_path
        IN  /\ given \notin before => target[1] = given
            /\ (given \in before /\ UsesCounterPlaceholder(filename_pattern)) =>
                   \E n \in 1..MaxCounter :
                       /\ target[1] = Rerendered(filename_pattern, n)
                       /\ \A m \in 1..(n - 1) :
                              Rerendered(filename_pattern, m) \in before
            /\ target[1] \notin before
            /\ ~Exists(files, target[1])

\* C22 witness: with the counter in the middle of the template and the
\* proposed name and the name of counter 1 taken, the call returned the name
\* of counter 2
C22_Witness ==
    /\ Returned
    /\ filename_pattern = MidCounterPattern
    /\ got[1].target_path \in got[1].before
    /\ Rerendered(MidCounterPattern, 1) \in got[1].before
    /\ target[1].stem = "IMG_1234_2_2023-06-15"
    /\ target[1].dir = got[1].target_path.dir

\* the proposed name followed by _k before the extension
Suffixed(given, k) ==
    [dir |-> given.dir, stem |-> given.stem \o "_" \o ToString(k), suffix |-> given.suffix]

-----------------------------------------------------------------------------
(* MediaScanner: paths are sequences of names, names and patterns sequences  *)
(* of characters                                                             *)

N_vault == <<"v", "a", "u", "l", "t">>
N_photos == <<"p", "h", "o", "t", "o", "s">>
N_thumbs == <<"t", "h", "u", "m", "b", "s">>
N_trip == <<"t", "r", "i", "p">>
N_a_jpg == <<"a", ".", "j", "p", "g">>
N_b_jpg == <<"b", ".", "j", "p", "g">>
N_c_JPG == <<"c", ".", "J", "P", "G">>
N_d_jpg == <<"d", ".", "j", "p", "g">>
N_notes_txt == <<"n", "o", "t", "e", "s", ".", "t", "x", "t">>
X_thumbs == <<"t", "h", "u", "m", "b", "s">>
X_th_star == <<"t", "h", "*">>
X_trip_all == <<"t", "r", "i", "p", "/", "*">>
X_any_thumbs == <<"*", "/", "t", "h", "u", "m", "b", "s", "/", "*">>
X_nomatch == <<"n", "o", "m", "a", "t", "c", "h">>
X_photos == <<"p", "h", "o", "t", "o", "s">>
X_va_star == <<"v", "a", "*">>
X_trip == <<"t", "r", "i", "p">>
E_jpg == <<".", "j", "p", "g">>
E_JPG == <<".", "J", "P", "G">>

\* fnmatch.fnmatch(text, pattern) for patterns made of characters, * and ?
RECURSIVE Fnmatch(_, _)
Fnmatch(text, pattern) ==
    IF pattern = <<>> THEN text = <<>>
    ELSE IF pattern[1] = "*"
    THEN Fnmatch(text, Tail(pattern)) \/ (text # <<>> /\ Fnmatch(Tail(text), pattern))
    ELSE IF pattern[1] = "?"
    THEN text # <<>> /\ Fnmatch(Tail(text), Tail(pattern))
    ELSE text # <<>> /\ text[1] = pattern[1] /\ Fnmatch(Tail(text), Tail(pattern))

\* str(path): the names joined by /
RECURSIVE JoinPath(_)
JoinPath(parts) ==
    IF parts = <<>> THEN <<>>
    ELSE IF Len(parts) = 1 THEN parts[1]
    ELSE parts[1] \o <<"/">> \o JoinPath(Tail(parts))

\* the names of file_path.parents of an absolute path: every directory from
\* the one that holds the file up to the root, whose name is empty
ParentNames(file_path) == {file_path[i] : i \in 1..(Len(file_path) - 1)} \cup {<<>>}

\* file_path.relative_to(source_path) for a file under source_path
RelativeTo(file_path, source_path) ==
    SubSeq(file_path, Len(source_path) + 1, Len(file_path))

\* MediaScanner._should_exclude
ShouldExclude(file_path, source_path, patterns) ==
    IF patterns = <<>> THEN FALSE
    ELSE LET rel_path == RelativeTo(file_path, source_path)
         IN  \E i \in 1..Len(patterns) :
                 \/ \E name \in ParentNames(file_path) :
                        name = patterns[i] \/ Fnmatch(name, patterns[i])
                 \/ Fnmatch(JoinPath(rel_path), patterns[i])
                 \/ \E j \in 1..Len(rel_path) : rel_path[j] = patterns[i]

\* the extensions scan looks for: each extension and its upper case
ScanExtensions == {E_jpg, E_JPG}

\* rglob("*" + ext) finds the file
HasExtension(file_path, ext) ==
    LET name == file_path[Len(file_path)]
    IN  /\ Len(name) >= Len(ext)
        /\ SubSeq(name, Len(name) - Len(ext) + 1, Len(name)) = ext

\* the scanned directory and the files below it, in sorted order
SourcePath == <<N_vault, N_photos>>

TreeFiles ==
    << <<N_vault, N_photos, N_a_jpg>>,
       <<N_vault, N_photos, N_thumbs, N_b_jpg>>,
       <<N_vault, N_photos, N_trip, N_d_jpg>>,
       <<N_vault, N_photos, N_trip, N_notes_txt>>,
       <<N_vault, N_photos, N_trip, N_thumbs, N_c_JPG>> >>

\* MediaScanner.scan(source_path, recursive=True, exclude_patterns): the
\* files with a media extension that are not excluded by the instance's
\* patterns followed by the call's, without duplicates, sorted
Scan(tree, source_path, instance_patterns, call_patterns) ==
    LET all_exclude_patterns == instance_patterns \o call_patterns
        Kept(file_path) ==
            /\ \E ext \in ScanExtensions : HasExtension(file_path, ext)
            /\ ~ShouldExclude(file_path, source_path, all_exclude_patterns)
    IN  SelectSeq(tree, Kept)

\* the exclude patterns of the model: a directory name, a glob for it, globs
\* for relative paths, a name that occurs nowhere, and the name of the
\* scanned directory and a glob for the directory above it
ExcludePatterns ==
    {X_thumbs, X_th_star, X_trip_all, X_any_thumbs, X_nomatch, X_photos, X_va_star, X_trip}

\* the most patterns one scan call is given
MaxCallPatterns == 2

PatternLists(n) == UNION {[1..k -> ExcludePatterns] : k \in 0..n}

InitScan ==
    /\ RateIdle
    /\ parkOrder = <<T_Sequoia, T_KingsCanyon>>
    /\ apiKey = FALSE
    /\ cache = {}
    /\ conn = TRUE
    /\ clock = 0
    /\ sets = <<>>
    /\ got = <<>>
    /\ RulesIdle
    /\ ClassifyIdle
    /\ exclude_patterns \in PatternLists(1)
    /\ files = <<>>
    /\ dirs = {}
    /\ mode = None
    /\ dry_run = FALSE
    /\ verify = FALSE
    /\ filename_pattern = <<>>
    /\ media_files = <<>>
    /\ pc = "idle"
    /\ index = 0
    /\ target = <<>>
    /\ targets = <<>>
    /\ stats = None
    /\ transactions = <<>>
    /\ duplicates = <<>>
    /\ log_saves = <<>>
    /\ report_saves = <<>>

\* scanner.scan(source_path, exclude_patterns=...): got keeps the patterns of
\* the call, media_files the list returned
ScanCall ==
    /\ \E call_patterns \in PatternLists(MaxCallPatterns) :
         /\ got' = <<[exclude_patterns |-> call_patterns]>>
         /\ media_files' = Scan(TreeFiles, SourcePath, exclude_patterns, call_patterns)
    /\ UNCHANGED <<files, dirs, mode, dry_run, verify, filename_pattern, exclude_patterns,
                   runVars>>
    /\ UNCHANGED <<sets, procVars, rateVars, rulesVars, cacheVars, classifyVars>>

NextScan == ScanCall

SpecScan == InitScan /\ [][NextScan]_vars

\* the patterns in force in the last scan
PatternsInForce ==
    {exclude_patterns[i] : i \in 1..Len(exclude_patterns)}
        \cup {got[1].exclude_patterns[i] : i \in 1..Len(got[1].exclude_patterns)}

\* the pattern matches a directory between the source and the file
MatchesDirectoryBelow(pattern, file_path) ==
    \E j \in (Len(SourcePath) + 1)..(Len(file_path) - 1) :
        file_path[j] = pattern \/ Fnmatch(file_path[j], pattern)

\* the pattern matches the path of the file relative to the source
MatchesRelativePath(pattern, file_path) ==
    Fnmatch(JoinPath(RelativeTo(file_path, SourcePath)), pattern)

\* the pattern matches something inside the scanned tree
MatchesInsideTree(pattern) ==
    \E n \in 1..Len(TreeFiles) :
        MatchesDirectoryBelow(pattern, TreeFiles[n])
            \/ MatchesRelativePath(pattern, TreeFiles[n])

Scanned == {media_files[i] : i \in 1..Len(media_files)}

MediaInTree ==
    {TreeFiles[n] : n \in {m \in 1..Len(TreeFiles) :
                              \E ext \in ScanExtensions : HasExtension(TreeFiles[m], ext)}}

\* C26: scan returns a media file if and only if no pattern of the instance or
\* of the call matches a directory between the source and the file or the
\* file's path relative to the source; in particular the files below a
\* matched directory are left out at every depth, and patterns that match
\* nothing inside the scanned tree leave out no file
C26_ScanExcludes ==
    got # <<>> =>
        /\ \A file_path \in MediaInTree :
               file_path \in Scanned <=>
                   \A pattern \in PatternsInForce :
                       /\ ~MatchesDirectoryBelow(pattern, file_path)
                       /\ ~MatchesRelativePath(pattern, file_path)
        /\ Scanned \subseteq MediaInTree
        /\ (\A pattern \in PatternsInForce : ~MatchesInsideTree(pattern)) =>
               Scanned = MediaInTree

\* a scan whose only pattern is the name of the scanned directory itself,
\* which occurs nowhere below it, returned no file
C26_SourceNameExcludesAll ==
    /\ got # <<>>
    /\ exclude_patterns = <<>>
    /\ got[1].exclude_patterns = <<X_photos>>
    /\ ~MatchesInsideTree(X_photos)
    /\ media_files = <<>>

\* what holds of every scan whose patterns match no directory above the
\* files of the tree other than those below the source: the files returned
\* are the media files no pattern matches
ScanExcludesBelowSource ==
    (got # <<>> /\ \A pattern \in PatternsInForce :
                       \A j \in 1..Len(SourcePath) :
                           ~Fnmatch(SourcePath[j], pattern)) =>
        \A file_path \in MediaInTree :
            file_path \in Scanned <=>
                \A pattern \in PatternsInForce :
                    /\ ~MatchesDirectoryBelow(pattern, file_path)
                    /\ ~MatchesRelativePath(pattern, file_path)

\* a scan with a pattern of the instance and a pattern of the call left out
\* the files below thumbs at both depths and the files below trip
ScanMergesPatterns ==
    /\ got # <<>>
    /\ exclude_patterns = <<X_thumbs>>
    /\ got[1].exclude_patterns = <<X_trip_all>>
    /\ media_files = << <<N_vault, N_photos, N_a_jpg>> >>

-----------------------------------------------------------------------------
(* Statistics and TransactionLog *)

NewStatistics ==
    [total_files |-> 0, processed_files |-> 0, skipped_files |-> 0, failed_files |-> 0,
     files_with_gps |-> 0, files_without_gps |-> 0,
     files_with_date |-> 0, files_without_date |-> 0,
     unique_locations |-> {}, duplicates_found |-> 0,
     api_calls_made |-> 0, cache_hits |-> 0, errors |-> <<>>]

RecordProcessed(s) == [s EXCEPT !.processed_files = @ + 1]

\* a failure whose message is kept but which is not counted
RecordFailedUncounted(s, error_msg) == [s EXCEPT !.errors = Append(@, error_msg)]

RecordFailed(s, error_msg) ==
    [s EXCEPT !.failed_files = @ + 1, !.errors = Append(@, error_msg)]

RecordGps(s, has_gps) ==
    IF has_gps THEN [s EXCEPT !.files_with_gps = @ + 1]
    ELSE [s EXCEPT !.files_without_gps = @ + 1]

RecordDate(s, has_date) ==
    IF has_date THEN [s EXCEPT !.files_with_date = @ + 1]
    ELSE [s EXCEPT !.files_without_date = @ + 1]

RecordLocation(s, location) == [s EXCEPT !.unique_locations = @ \cup {location}]

RecordDuplicate(s) == [s EXCEPT !.duplicates_found = @ + 1]

RecordApiCall(s) == [s EXCEPT !.api_calls_made = @ + 1]

RecordCacheHit(s) == [s EXCEPT !.cache_hits = @ + 1]

\* a log that keeps only its newest record
LogOperationKeepsNewest(log, operation, source, destination, success, error) ==
    <<[operation |-> operation, source |-> source, destination |-> destination,
       success |-> success, error |-> error]>>

\* TransactionLog.log_operation (the timestamp is left out); error is <<>> for None
LogOperation(log, operation, source, destination, success, error) ==
    Append(log, [operation |-> operation, source |-> source, destination |-> destination,
                 success |-> success, error |-> error])

-----------------------------------------------------------------------------
(* PhotoOrganizer._process_file up to the file operation *)

\* Path.name
NameOf(path) == path.stem \o path.suffix

\* the location lookup of _process_file for the answer o2 of Nominatim:
\* nothing without GPS, the cached name on a hit, else get_location_name; the
\* read of the cache raises when the store is not readable
LookupLocation(rows, open, readable, now, key, order, metadata, o1, o2) ==
    IF metadata.gps_coords = <<>>
    THEN [raised |-> FALSE, location_name |-> <<>>, rows |-> rows, hit |-> FALSE, api |-> FALSE]
    ELSE LET lat == metadata.gps_coords[1]
             lon == metadata.gps_coords[2]
             read == CacheGetIO(rows, open, readable, lat, lon, DefaultPrecision)
             cached == read.value
             r == GetLocationName(rows, open, now, key, order, lat, lon, o1, o2)
         IN  IF read.raised
             THEN [raised |-> TRUE, location_name |-> <<>>, rows |-> rows,
                   hit |-> FALSE, api |-> FALSE]
             ELSE IF cached # <<>>
             THEN [raised |-> FALSE, location_name |-> <<TextOf(cached[1].location_name)>>,
                   rows |-> rows, hit |-> TRUE, api |-> FALSE]
             ELSE IF r.outcome = "raised"
             THEN [raised |-> TRUE, location_name |-> <<>>, rows |-> r.rows,
                   hit |-> FALSE, api |-> FALSE]
             ELSE [raised |-> FALSE, location_name |-> <<TextOf(r.result[1])>>,
                   rows |-> r.rows, hit |-> FALSE, api |-> TRUE]

\* _process_file from the location lookup l, the proposed path and the
\* answer u of ensure_unique_path to the point where the file operation
\* starts: how it ends ("error" for an exception, "no_directory", "dry_run",
\* or "operate" with the target path) and what it leaves behind
PlanFile(directories, dry, st, dups, file_path, metadata, l, duplicate, u, mkdir_ok) ==
    LET s1 == RecordGps(RecordDate(st, metadata.date_taken # <<>>),
                        metadata.gps_coords # <<>>)
        s2 == IF metadata.gps_coords = <<>> \/ l.raised THEN s1
              ELSE RecordLocation(IF l.hit THEN RecordCacheHit(s1) ELSE RecordApiCall(s1),
                                  l.location_name[1])
        s3 == IF duplicate THEN RecordDuplicate(s2) ELSE s2
        d3 == IF duplicate
              THEN Append(dups, [original |-> file_path, target |-> u.path]) ELSE dups
        made == u.path.dir \in directories \/ dry \/ mkdir_ok
    IN  IF l.raised \/ u.raised
        THEN [end |-> "error", stats |-> RecordFailed(s2, NameOf(file_path) \o ": error"),
              dirs |-> directories, duplicates |-> dups, path |-> <<>>]
        ELSE IF ~made
        THEN [end |-> "no_directory",
              stats |-> RecordFailed(s3, "Failed to create directory for "
                                             \o NameOf(file_path)),
              dirs |-> directories, duplicates |-> d3, path |-> <<u.path>>]
        ELSE IF dry
        THEN [end |-> "dry_run", stats |-> RecordProcessed(s3),
              dirs |-> directories, duplicates |-> d3, path |-> <<u.path>>]
        ELSE [end |-> "operate", stats |-> s3,
              dirs |-> directories \cup {u.path.dir}, duplicates |-> d3,
              path |-> <<u.path>>]

-----------------------------------------------------------------------------
(* A run of organize() as a state machine.  The steps of a file operation    *)
(* that the file system performs one after the other (rename, copy, unlink,  *)
(* verify) are separate steps, each of which can fail.                       *)

\* the media files of the model: two files of the same name in two folders of
\* the inbox, one of them with GPS coordinates, and a file that already lies
\* in the library
InboxA == [dir |-> "inbox/a", stem |-> "IMG", suffix |-> ".jpg"]
InboxB == [dir |-> "inbox/b", stem |-> "IMG", suffix |-> ".jpg"]
InLibrary == [dir |-> "library/2023/06/Unknown", stem |-> "IMG", suffix |-> ".jpg"]

MediaPaths == {InboxA, InboxB, InLibrary}

\* the bytes of each media file before the run
InitialContent ==
    [q \in MediaPaths |->
        CASE q = InboxA -> <<"a1", "a2">>
          [] q = InboxB -> <<"b1", "b2">>
          [] q = InLibrary -> <<"c1", "c2">>]

\* MetadataExtractor.extract: the capture date (the file's creation date when
\* the file carries none) and the GPS coordinates
Extract(file_path) ==
    [file_path |-> file_path,
     date_taken |-> <<[year |-> 2023, month |-> 6, day |-> 15]>>,
     gps_coords |-> IF file_path = InboxA THEN <<3777490, -12241940>> ELSE <<>>]

\* what MediaScanner.scan finds under source_path, sorted
Scans == {<<>>, <<InboxA>>, <<InboxA, InboxB>>, <<InboxB, InLibrary>>}

Modes == {"move", "copy"}
Patterns == {DefaultPattern, CounterPattern}

\* what Nominatim answers during a run: a time-out, an address without
\* fields, a town in France
OrganizeAnswers ==
    {o \in NominatimOutcomes :
        \/ o.kind = "timeout"
        \/ o.kind = "ok" /\ o.address.country \in {T_Empty, T_France}}

Init ==
    /\ RateIdle
    /\ exclude_patterns = <<>>
    /\ parkOrder = <<T_Sequoia, T_KingsCanyon>>
    /\ apiKey = FALSE
    /\ cache = {}
    /\ conn = TRUE
    /\ clock = 0
    /\ RulesIdle
    /\ CacheApiIdle
    /\ ClassifyIdle
    /\ media_files \in Scans
    /\ files = [q \in {media_files[i] : i \in 1..Len(media_files)} |-> InitialContent[q]]
    /\ dirs = {media_files[i].dir : i \in 1..Len(media_files)}
    /\ mode \in Modes
    /\ dry_run \in BOOLEAN
    /\ verify \in BOOLEAN
    /\ filename_pattern \in Patterns
    /\ pc = "start"
    /\ index = 0
    /\ target = <<>>
    /\ targets = [i \in 1..Len(media_files) |-> <<>>]
    /\ stats = NewStatistics
    /\ transactions = <<>>
    /\ duplicates = <<>>
    /\ log_saves = <<>>
    /\ report_saves = <<>>

\* the loop of organize() goes on to the next file, or leaves the loop
NextFile ==
    /\ index' = IF index < Len(media_files) THEN index + 1 ELSE index
    /\ pc' = IF index < Len(media_files) THEN "file" ELSE "finish"
    /\ target' = <<>>

\* _perform_file_operation returns True: the operation is logged and counted
OperationSucceeds ==
    /\ transactions' = LogOperation(transactions, mode, media_files[index], target[1],
                                    TRUE, <<>>)
    /\ stats' = RecordProcessed(stats)
    /\ NextFile

\* _perform_file_operation returns False: the failure is logged and counted
OperationFails(error) ==
    /\ transactions' = LogOperation(transactions, mode, media_files[index], target[1],
                                    FALSE, <<error>>)
    /\ stats' = RecordFailed(stats, "Failed to " \o mode \o " " \o NameOf(media_files[index]))
    /\ NextFile

\* organize() up to the loop: the destination is created, the source scanned
Organize ==
    /\ pc = "start"
    /\ dirs' = IF dry_run THEN dirs ELSE dirs \cup {destination_root}
    /\ stats' = [stats EXCEPT !.total_files = Len(media_files)]
    /\ index' = IF media_files = <<>> THEN 0 ELSE 1
    /\ pc' = IF media_files = <<>> THEN "done" ELSE "file"
    /\ UNCHANGED <<files, configVars, target, targets, transactions, duplicates,
                   log_saves, report_saves>>
    /\ UNCHANGED <<procVars, rateVars, rulesVars, cacheVars, cacheApiVars, classifyVars>>

\* _process_file up to the file operation: the metadata extraction (which can
\* raise), the location lookup, the target path, the directory
ProcessFile ==
    /\ pc = "file"
    /\ \E extracted \in BOOLEAN :
         IF ~extracted
         THEN /\ stats' = RecordFailed(stats, NameOf(media_files[index]) \o ": error")
              /\ NextFile
              /\ UNCHANGED <<cache, dirs, duplicates, targets>>
         ELSE \E metadata \in {Extract(media_files[index])}, mkdir_ok \in BOOLEAN :
              \E o2 \in IF metadata.gps_coords # <<>> THEN OrganizeAnswers ELSE {NoAnswer} :
              \E readable \in IF metadata.gps_coords # <<>> THEN BOOLEAN ELSE {TRUE} :
              \E l \in {LookupLocation(cache, conn, readable, clock + 1, apiKey, parkOrder,
                                       metadata, NoAnswer, o2)} :
              \E proposed \in {GeneratePath(filename_pattern, metadata, l.location_name)} :
              \E u \in {EnsureUniquePath(files, filename_pattern, proposed, <<metadata>>)} :
              \E r \in {PlanFile(dirs, dry_run, stats, duplicates, media_files[index],
                                 metadata, l, Exists(files, proposed), u, mkdir_ok)} :
                  /\ stats' = r.stats
                  /\ cache' = l.rows
                  /\ dirs' = r.dirs
                  /\ duplicates' = r.duplicates
                  /\ targets' = [targets EXCEPT ![index] = r.path]
                  /\ IF r.end = "operate"
                     THEN /\ pc' = "operate"
                          /\ target' = r.path
                          /\ index' = index
                     ELSE NextFile
    /\ clock' = clock + 1
    /\ UNCHANGED <<files, configVars, transactions, log_saves, report_saves>>
    /\ UNCHANGED <<conn, procVars, rateVars, rulesVars, cacheApiVars, classifyVars>>

\* what a step of a file operation leaves alone
OperationFrame ==
    UNCHANGED <<dirs, configVars, targets, duplicates, log_saves, report_saves,
                procVars, rateVars, rulesVars, cacheVars, cacheApiVars, classifyVars>>

\* damage to a copy that keeps its size, and damage that does not
Flipped(content) == [content EXCEPT ![Len(content)] = "??"]
Truncated(content) == SubSeq(content, 1, Len(content) - 1)

\* shutil.move, first step: os.rename, which moves the file at once or fails
\* (another file system, or any other OSError) and leaves shutil.move to copy
MoveFile ==
    /\ pc = "operate"
    /\ mode = "move"
    /\ \E renamed \in BOOLEAN :
         IF renamed
         THEN /\ files' = Rename(files, media_files[index], target[1])
              /\ OperationSucceeds
         ELSE /\ pc' = "move_copy"
              /\ UNCHANGED <<files, index, target, stats, transactions>>
    /\ OperationFrame

\* shutil.move, second step: copy2 of the source to the destination
MoveCopy ==
    /\ pc = "move_copy"
    /\ \E how \in {"copied", "interrupted", "refused"} :
         CASE how = "copied" ->
                  /\ files' = Copy2(files, media_files[index], target[1])
                  /\ pc' = "move_unlink"
                  /\ UNCHANGED <<index, target, stats, transactions>>
           [] how = "interrupted" ->
                  /\ files' = Copy2Interrupted(files, media_files[index], target[1])
                  /\ OperationFails("copy failed")
           [] how = "refused" ->
                  /\ files' = files
                  /\ OperationFails("copy failed")
    /\ OperationFrame

\* shutil.move, third step: os.unlink of the source
MoveUnlink ==
    /\ pc = "move_unlink"
    /\ \E unlinked \in BOOLEAN :
         IF unlinked
         THEN /\ files' = Unlink(files, media_files[index])
              /\ OperationSucceeds
         ELSE /\ files' = files
              /\ OperationFails("unlink failed")
    /\ OperationFrame

\* copy mode: shutil.copy2; with verify the verification follows
CopyFile ==
    /\ pc = "operate"
    /\ mode = "copy"
    /\ \E how \in {"copied", "interrupted", "refused"} :
         CASE how = "copied" ->
                  /\ files' = Copy2(files, media_files[index], target[1])
                  /\ IF verify
                     THEN /\ pc' = "verify"
                          /\ UNCHANGED <<index, target, stats, transactions>>
                     ELSE OperationSucceeds
           [] how = "interrupted" ->
                  /\ files' = Copy2Interrupted(files, media_files[index], target[1])
                  /\ OperationFails("copy failed")
           [] how = "refused" ->
                  /\ files' = files
                  /\ OperationFails("copy failed")
    /\ OperationFrame

\* the copy does not hold the bytes that were written (a fault of the medium,
\* or another writer) when the verification reads it
CorruptDestination ==
    /\ pc = "verify"
    /\ files[target[1]] = files[media_files[index]]
    /\ \E damaged \in {Flipped(files[target[1]]), Truncated(files[target[1]])} :
         files' = WriteFile(files, target[1], damaged)
    /\ UNCHANGED <<pc, index, target, stats, transactions>>
    /\ OperationFrame

\* copy mode: verify_file_integrity and what follows it; reading the files
\* and removing the copy can raise
VerifyCopy ==
    /\ pc = "verify"
    /\ \E read \in BOOLEAN, unlinked \in BOOLEAN :
         IF ~read
         THEN /\ files' = files
              /\ OperationFails("read failed")
         ELSE IF VerifyFileIntegrity(files, media_files[index], target[1])
         THEN /\ files' = files
              /\ OperationSucceeds
         ELSE IF unlinked
         THEN /\ files' = Unlink(files, target[1])
              /\ OperationFails("Integrity verification failed")
         ELSE /\ files' = files
              /\ OperationFails("unlink failed")
    /\ OperationFrame

\* an end of organize() that writes the duplicates report of every run
FinishReportsAlways ==
    /\ pc = "finish"
    /\ \E log_written \in BOOLEAN, report_written \in BOOLEAN :
         /\ log_saves' = IF dry_run THEN log_saves
                         ELSE Append(log_saves, [written |-> log_written,
                                                 transactions |-> transactions])
         /\ report_saves' = Append(report_saves, [written |-> report_written,
                                                  duplicates |-> duplicates])
    /\ pc' = "done"
    /\ UNCHANGED <<files, dirs, configVars, index, target, targets, stats, transactions,
                   duplicates>>
    /\ UNCHANGED <<procVars, rateVars, rulesVars, cacheVars, cacheApiVars, classifyVars>>

\* an end of organize() that writes the transaction log twice
FinishSavesTwice ==
    /\ pc = "finish"
    /\ \E log_written \in BOOLEAN, report_written \in BOOLEAN :
         /\ log_saves' = IF dry_run THEN log_saves
                         ELSE log_saves \o <<[written |-> log_written,
                                              transactions |-> transactions],
                                             [written |-> log_written,
                                              transactions |-> transactions]>>
         /\ report_saves' = IF duplicates = <<>> THEN report_saves
                            ELSE Append(report_saves, [written |-> report_written,
                                                       duplicates |-> duplicates])
    /\ pc' = "done"
    /\ UNCHANGED <<files, dirs, configVars, index, target, targets, stats, transactions,
                   duplicates>>
    /\ UNCHANGED <<procVars, rateVars, rulesVars, cacheVars, cacheApiVars, classifyVars>>

\* organize() after the loop: the transaction log is saved unless dry_run,
\* the duplicates report when there are duplicates; a failed write is logged
\* and swallowed
Finish ==
    /\ pc = "finish"
    /\ \E log_written \in BOOLEAN, report_written \in BOOLEAN :
         /\ log_saves' = IF dry_run THEN log_saves
                         ELSE Append(log_saves, [written |-> log_written,
                                                 transactions |-> transactions])
         /\ report_saves' = IF duplicates = <<>> THEN report_saves
                            ELSE Append(report_saves, [written |-> report_written,
                                                       duplicates |-> duplicates])
    /\ pc' = "done"
    /\ UNCHANGED <<files, dirs, configVars, index, target, targets, stats, transactions,
                   duplicates>>
    /\ UNCHANGED <<procVars, rateVars, rulesVars, cacheVars, cacheApiVars, classifyVars>>

Next ==
    \/ Organize
    \/ ProcessFile
    \/ MoveFile
    \/ MoveCopy
    \/ MoveUnlink
    \/ CopyFile
    \/ CorruptDestination
    \/ VerifyCopy
    \/ Finish

Spec == Init /\ [][Next]_vars

\* a run that is not interrupted: organize() goes on as long as it has a step
\* to take
SpecRun == Init /\ [][Next]_vars /\ WF_vars(Next)

-----------------------------------------------------------------------------
(* A run of organize() into a library in which one folder is crowded: the    *)
(* path the media files are given there and its numbered candidates exist.   *)

\* the folders of the library a media file of the model can be sent to
LibraryFolders == {"Unknown", TextOf(T_France)}

\* the path generate_path gives the media files (they share name and date)
\* in a folder
ProposedIn(pattern, folder) == GeneratePath(pattern, Extract(InboxB), <<folder>>)

\* the proposed path and its candidates of the counters 1..last
CrowdedFolder(pattern, folder, last) ==
    {ProposedIn(pattern, folder)}
        \cup {PathWithCounter(pattern, ProposedIn(pattern, folder),
                              <<Extract(InboxB)>>, n) : n \in 1..last}

\* the bytes of a file that lay in the library before the run
OldContent == <<"old">>

InitCrowded ==
    /\ RateIdle
    /\ exclude_patterns = <<>>
    /\ parkOrder = <<T_Sequoia, T_KingsCanyon>>
    /\ apiKey = FALSE
    /\ cache = {}
    /\ conn = TRUE
    /\ clock = 0
    /\ RulesIdle
    /\ CacheApiIdle
    /\ ClassifyIdle
    /\ media_files \in Scans \ {<<>>}
    /\ filename_pattern \in Patterns
    /\ \E folder \in LibraryFolders, last \in {MaxCounter - 1, MaxCounter} :
       \E crowd \in {CrowdedFolder(filename_pattern, folder, last)} :
         /\ files = [q \in {media_files[i] : i \in 1..Len(media_files)} \cup crowd |->
                         IF \E i \in 1..Len(media_files) : media_files[i] = q
                         THEN InitialContent[q] ELSE OldContent]
         /\ dirs = {media_files[i].dir : i \in 1..Len(media_files)}
                       \cup {destination_root} \cup {q.dir : q \in crowd}
    /\ mode \in Modes
    /\ dry_run \in BOOLEAN
    /\ verify \in BOOLEAN
    /\ pc = "start"
    /\ index = 0
    /\ target = <<>>
    /\ targets = [i \in 1..Len(media_files) |-> <<>>]
    /\ stats = NewStatistics
    /\ transactions = <<>>
    /\ duplicates = <<>>
    /\ log_saves = <<>>
    /\ report_saves = <<>>

SpecCrowded == InitCrowded /\ [][Next]_vars

-----------------------------------------------------------------------------
(* The provider calls of one LocationIntelligence and their rate limit.      *)
(* Time is counted in ticks; clock is what time.time() returns.  A provider  *)
(* call is issued by the statement that follows _rate_limit(), so it starts  *)
(* at the time _rate_limit stamps into last_api_call.                        *)

\* the resolution of the clock
TicksPerSecond == 2

\* min_api_interval = 1.0 second
min_api_interval == TicksPerSecond

\* time.time() when the classifier is made: long after the epoch
StartTime == 2 * min_api_interval

\* the time and the number of provider calls up to which a behaviour is followed
MaxRateTime == 11
MaxApiCalls == 3

\* a rate limit that never waits
RateLimitSleepTimeNone(now, last_call, interval) == 0

\* _rate_limit: the time to sleep, 0 when the interval has passed
RateLimitSleepTime(now, last_call, interval) ==
    IF now - last_call < interval THEN interval - (now - last_call) ELSE 0

InitRate ==
    /\ last_api_call = 0
    /\ sleep_time = 0
    /\ api_starts = <<>>
    /\ exclude_patterns = <<>>
    /\ parkOrder = <<T_Sequoia, T_KingsCanyon>>
    /\ apiKey \in BOOLEAN
    /\ cache = {}
    /\ conn = TRUE
    /\ clock = StartTime
    /\ sets = <<>>
    /\ got = <<>>
    /\ RulesIdle
    /\ ClassifyIdle
    /\ files = <<>>
    /\ dirs = {}
    /\ mode = None
    /\ dry_run = FALSE
    /\ verify = FALSE
    /\ filename_pattern = <<>>
    /\ media_files = <<>>
    /\ pc = "idle"
    /\ index = 0
    /\ target = <<>>
    /\ targets = <<>>
    /\ stats = None
    /\ transactions = <<>>
    /\ duplicates = <<>>
    /\ log_saves = <<>>
    /\ report_saves = <<>>

RateFrame ==
    /\ UNCHANGED <<fsVars, configVars, index, target, targets, stats, transactions,
                   duplicates, log_saves, report_saves>>
    /\ UNCHANGED <<procVars, rulesVars, cache, conn, cacheApiVars>>
    /\ UNCHANGED <<query, outcome, result, calls, answered, prevCall>>

\* the providers and the positions in their calls
Providers == {"locationiq", "nominatim"}
AtLimit(provider) == provider \o ": _rate_limit"
AtSleep(provider) == provider \o ": sleep"
AtStamp(provider) == provider \o ": stamp"
AtCall(provider) == provider \o ": call"

\* time passes, whatever the classifier is doing
Tick ==
    /\ clock < MaxRateTime
    /\ clock' = clock + 1
    /\ UNCHANGED <<pc, callNo, rateVars>>
    /\ RateFrame

\* _geocode for the coordinates of the next file that missed the cache:
\* LocationIQ when a key is configured, else Nominatim
Geocode_Begin ==
    /\ pc = "idle"
    /\ Len(api_starts) < MaxApiCalls
    /\ callNo' = callNo + 1
    /\ pc' = AtLimit(IF apiKey THEN "locationiq" ELSE "nominatim")
    /\ UNCHANGED <<clock, rateVars>>
    /\ RateFrame

\* _rate_limit, lines 284-287: now is read and compared with last_api_call
RateLimit_Read ==
    \E provider \in Providers :
        /\ pc = AtLimit(provider)
        /\ sleep_time' = RateLimitSleepTime(clock, last_api_call, min_api_interval)
        /\ pc' = IF sleep_time' > 0 THEN AtSleep(provider) ELSE AtStamp(provider)
        /\ UNCHANGED <<clock, callNo, last_api_call, api_starts>>
        /\ RateFrame

\* _rate_limit, line 289: time.sleep returns after sleep_time or later
RateLimit_Sleep ==
    \E provider \in Providers, late \in 0..1 :
        /\ pc = AtSleep(provider)
        /\ clock' = clock + sleep_time + late
        /\ pc' = AtStamp(provider)
        /\ UNCHANGED <<callNo, rateVars>>
        /\ RateFrame

\* _rate_limit, line 291, and the statement after it: last_api_call is
\* stamped and the request goes out to the provider
RateLimit_StampAndCall ==
    \E provider \in Providers :
        /\ pc = AtStamp(provider)
        /\ last_api_call' = clock
        /\ sleep_time' = 0
        /\ api_starts' = Append(api_starts,
                                [provider |-> provider, at |-> clock, file |-> callNo])
        /\ pc' = AtCall(provider)
        /\ UNCHANGED <<clock, callNo>>
        /\ RateFrame

\* the provider answers or fails; after LocationIQ gave nothing _geocode
\* falls back to Nominatim
Provider_Returns ==
    \E provider \in Providers, answered_ok \in BOOLEAN :
        /\ pc = AtCall(provider)
        /\ pc' = IF provider = "locationiq" /\ ~answered_ok
                     /\ Len(api_starts) < MaxApiCalls
                  THEN AtLimit("nominatim") ELSE "idle"
        /\ UNCHANGED <<clock, callNo, rateVars>>
        /\ RateFrame

NextRate ==
    \/ Tick
    \/ Geocode_Begin
    \/ RateLimit_Read
    \/ RateLimit_Sleep
    \/ RateLimit_StampAndCall
    \/ Provider_Returns

SpecRate == InitRate /\ [][NextRate]_vars

-----------------------------------------------------------------------------
(* Claims about a run of organize (Spec) *)

Running == pc \notin {"idle", "start"}

\* the bytes media file i held before the run lie at path
Holds(path, i) ==
    /\ Exists(files, path)
    /\ files[path] = InitialContent[media_files[i]]

\* C1: at every step of a run in move or copy mode the content of every media
\* file lies at its source path or at the destination path it was given; the
\* source of a file operation that failed is in place, copy mode removes no
\* source, and the step that reports an integrity failure removes the
\* destination copy and nothing else
C1_NoContentLost ==
    /\ [](mode \in Modes =>
            \A i \in 1..Len(media_files) :
                \/ Holds(media_files[i], i)
                \/ targets[i] # <<>> /\ Holds(targets[i][1], i))
    /\ [](\A n \in 1..Len(transactions) :
              ~transactions[n].success =>
                  \E i \in 1..Len(media_files) :
                      /\ media_files[i] = transactions[n].source
                      /\ Holds(media_files[i], i))
    /\ [](mode = "copy" => \A i \in 1..Len(media_files) : Holds(media_files[i], i))
    /\ [][(/\ Len(transactions') = Len(transactions) + 1
           /\ transactions'[Len(transactions')].error = <<"Integrity verification failed">>)
              => files' = Unlink(files, target[1])]_vars

\* C1 witness: a move run ended in which the first file was moved (its source
\* is gone, its content lies at the destination) and the move of the second
\* failed after a partial copy, its source still in place
C1_Witness ==
    /\ pc = "done"
    /\ mode = "move"
    /\ ~dry_run
    /\ Len(transactions) = 2
    /\ transactions[1].success
    /\ ~transactions[2].success
    /\ ~Exists(files, media_files[1])
    /\ Holds(targets[1][1], 1)
    /\ Holds(media_files[2], 2)
    /\ Exists(files, targets[2][1])
    /\ ~Holds(targets[2][1], 2)

\* the positions of _perform_file_operation: a call is under way
OperationPcs == {"operate", "move_copy", "move_unlink", "verify"}

\* a step in which a call of _perform_file_operation returns
OperationReturns == pc \in OperationPcs /\ pc' \notin OperationPcs

\* the place of a path in the scan
PositionOf(path) == CHOOSE i \in 1..Len(media_files) : media_files[i] = path

\* C16: a step in which the file operation returns appends one record to the
\* transaction log, for the file and the destination of that call, whose
\* success flag is the result the call returned (the file is then counted as
\* processed, else as failed); no other step touches the log, the records
\* stand in the order of the attempts, and the records already there stay as
\* they are
C16_OneRecordPerOperation ==
    /\ [][OperationReturns =>
            /\ Len(transactions') = Len(transactions) + 1
            /\ SubSeq(transactions', 1, Len(transactions)) = transactions
            /\ LET record == transactions'[Len(transactions')]
               IN  /\ record.operation = mode
                   /\ record.source = media_files[index]
                   /\ record.destination = target[1]
                   /\ record.success <=>
                          stats'.processed_files = stats.processed_files + 1
                   /\ ~record.success <=>
                          stats'.failed_files = stats.failed_files + 1
                   /\ record.success <=> record.error = <<>>]_vars
    /\ [][~OperationReturns => transactions' = transactions]_vars
    /\ [](\A m, n \in 1..Len(transactions) :
              m < n => PositionOf(transactions[m].source)
                           < PositionOf(transactions[n].source))

\* C16 witness: a copy run ended with two operations attempted, the first
\* failed and the second succeeded, and the log holds the two records in
\* that order
C16_Witness ==
    /\ pc = "done"
    /\ mode = "copy"
    /\ Len(media_files) = 2
    /\ Len(transactions) = 2
    /\ transactions[1].source = media_files[1]
    /\ ~transactions[1].success
    /\ transactions[2].source = media_files[2]
    /\ transactions[2].success
    /\ stats.processed_files = 1
    /\ stats.failed_files = 1

\* every candidate file has been through _process_file
AllFilesProcessed ==
    /\ index = Len(media_files)
    /\ pc \in {"finish", "done"}
    /\ stats.processed_files + stats.failed_files = Len(media_files)

\* the transaction log is never written in a dry run nor while files remain
SavedOnlyAtTheEnd ==
    /\ dry_run => log_saves = <<>>
    /\ log_saves # <<>> => (pc = "done" /\ AllFilesProcessed)

\* C17 as stated: a run that is not a dry run and has ended has written the
\* transaction log exactly once, and the log is never written while files
\* remain
C17_LogSavedOnce ==
    /\ (pc = "done" /\ ~dry_run) => Len(log_saves) = 1
    /\ SavedOnlyAtTheEnd

\* C17 amended: a run that is not a dry run, found at least one candidate file
\* and has ended has saved the transaction log exactly once, with every record
\* of the run in it; the log is never written while files remain; a run that
\* found no candidate file ends without writing the log
C17_LogSavedOnceAfterFiles ==
    /\ (pc = "done" /\ ~dry_run /\ media_files # <<>>) =>
           (Len(log_saves) = 1 /\ log_saves[1].transactions = transactions)
    /\ (pc = "done" /\ media_files = <<>>) => log_saves = <<>>
    /\ SavedOnlyAtTheEnd

\* C17 witness: a run over two files ended, and its log, written once after
\* the second file, holds the records of both
C17_Witness ==
    /\ pc = "done"
    /\ ~dry_run
    /\ Len(media_files) = 2
    /\ Len(log_saves) = 1
    /\ log_saves[1].written
    /\ Len(log_saves[1].transactions) = 2

\* the copy at the destination differs from the source in size or in hash
CopyDiffers ==
    \/ SizeOf(files[target[1]]) # SizeOf(files[media_files[index]])
    \/ CalculateFileHash(files[target[1]]) # CalculateFileHash(files[media_files[index]])

\* the errors of the file system itself while the copy is verified or removed
FileSystemErrors == {<<"read failed">>, <<"unlink failed">>}

FilesDone ==
    CASE pc = "start" -> 0
      [] pc \in {"finish", "done"} -> index
      [] OTHER -> index - 1

\* C19: whatever fails for a file (the read of the cache, the provider, the
\* creation of the directory, the search for a free name, the verification,
\* the file system), the run goes on to its end: the files are taken one
\* after the other in the order of the scan, each file that has been through
\* is counted once, as processed or as failed, each failed file leaves one
\* error message, and at the end processed_files + failed_files is the number
\* of candidate files
C19_EveryFileCounted ==
    /\ <>(pc = "done")
    /\ [](stats.processed_files + stats.failed_files = FilesDone)
    /\ [](Len(stats.errors) = stats.failed_files)
    /\ [](pc = "done" =>
            /\ index = Len(media_files)
            /\ stats.processed_files + stats.failed_files = Len(media_files)
            /\ stats.total_files = Len(media_files))
    /\ [][/\ index' \in {index, index + 1}
          /\ stats'.processed_files \in {stats.processed_files, stats.processed_files + 1}
          /\ stats'.failed_files \in {stats.failed_files, stats.failed_files + 1}
          /\ pc' = "file" => index' \in 1..Len(media_files)]_vars

\* C19 witness: a run over two files ended in which the first file, which
\* carries GPS coordinates, failed before any file operation (the read of the
\* cache or the provider raised) and the second was processed all the same
C19_Witness ==
    /\ pc = "done"
    /\ ~dry_run
    /\ Len(media_files) = 2
    /\ stats.files_with_gps = 1
    /\ stats.api_calls_made = 0
    /\ stats.cache_hits = 0
    /\ stats.failed_files = 1
    /\ stats.processed_files = 1
    /\ stats.errors = <<NameOf(media_files[1]) \o ": error">>
    /\ Len(transactions) = 1
    /\ transactions[1].source = media_files[2]
    /\ transactions[1].success

\* the paths generate_path can have proposed for candidate file i: one for
\* each location name the run has met, and one for no location
ProposedFor(i) ==
    {GeneratePath(filename_pattern, Extract(media_files[i]), location_name) :
        location_name \in {<<>>} \cup {<<name>> : name \in stats.unique_locations}}

\* candidate file i was given a path other than the proposed one
CollisionResolved(i) == targets[i] # <<>> /\ targets[i][1] \notin ProposedFor(i)

\* C24: the duplicates report is written at the end of a run, once, if and
\* only if a collision was resolved in the run, and never before the end; the
\* pairs it lists are the (original, target) pairs of the files that were
\* given another path than the proposed one, each once, in the order the
\* files were processed
C24_DuplicatesReport ==
    /\ [](pc # "done" => report_saves = <<>>)
    /\ [](pc = "done" =>
            /\ report_saves # <<>> <=> (\E i \in 1..Len(media_files) : CollisionResolved(i))
            /\ Len(report_saves) <= 1
            /\ report_saves # <<>> => report_saves[1].duplicates = duplicates)
    /\ [](\A i \in 1..Len(media_files) :
              CollisionResolved(i) <=>
                  \E n \in 1..Len(duplicates) :
                      /\ targets[i] # <<>>
                      /\ duplicates[n] = [original |-> media_files[i],
                                          target |-> targets[i][1]])
    /\ [](\A n \in 1..Len(duplicates) :
              \E i \in 1..Len(media_files) :
                  /\ CollisionResolved(i)
                  /\ duplicates[n] = [original |-> media_files[i],
                                      target |-> targets[i][1]])
    /\ [](\A m, n \in 1..Len(duplicates) :
              m < n => PositionOf(duplicates[m].original)
                           < PositionOf(duplicates[n].original))
    /\ [](Len(duplicates) = stats.duplicates_found)

\* C24 witness: a run over two files of the same name ended; the second met
\* the first at its path and was given the name with _1, and the report,
\* written once, lists that pair and no other
C24_Witness ==
    /\ pc = "done"
    /\ ~dry_run
    /\ Len(media_files) = 2
    /\ Len(report_saves) = 1
    /\ report_saves[1].written
    /\ targets[1] # <<>>
    /\ targets[2] # <<>>
    /\ report_saves[1].duplicates =
           <<[original |-> media_files[2], target |-> targets[2][1]]>>
    /\ targets[2][1].dir = targets[1][1].dir
    /\ targets[2][1].stem = targets[1][1].stem \o "_1"

\* the files and directories as they were before the run
FilesBefore ==
    [q \in {media_files[i] : i \in 1..Len(media_files)} |-> InitialContent[q]]
DirsBefore == {media_files[i].dir : i \in 1..Len(media_files)}

\* what holds of every dry run: no file is moved, copied or changed, no
\* directory is created, no file operation is attempted and the transaction
\* log is not written; at the end every file that raised no error is counted
\* as processed
DryRunLeavesFiles ==
    dry_run =>
        /\ files = FilesBefore
        /\ dirs = DirsBefore
        /\ transactions = <<>>
        /\ log_saves = <<>>
        /\ pc = "done" =>
               /\ stats.processed_files + stats.failed_files = Len(media_files)
               /\ stats.failed_files = Len(stats.errors)
               /\ \A n \in 1..Len(stats.errors) :
                      \E i \in 1..Len(media_files) :
                          stats.errors[n] = NameOf(media_files[i]) \o ": error"

\* C25: a dry run writes nothing under the source or the destination: no file
\* is moved or copied, no directory is created, neither the transaction log
\* nor the duplicates report is written, and the files are counted as
\* processed
C25_DryRunWritesNothing ==
    /\ DryRunLeavesFiles
    /\ dry_run => report_saves = <<>>

\* a dry run has ended in which a file met an existing file at its path, and
\* the duplicates report was written into the destination
C25_ReportInDryRun ==
    /\ pc = "done"
    /\ dry_run
    /\ files = FilesBefore
    /\ stats.processed_files = Len(media_files)
    /\ Len(report_saves) = 1
    /\ report_saves[1].written

\* the answer that gave the last call its address data
DataAnswer(a) == IF a.key /\ a.o1.kind = "ok" THEN a.o1 ELSE a.o2

\* the state and the city of a raw address: the first field that is not empty
RawState(a) ==
    IF a.state # T_Empty THEN a.state
    ELSE IF a.province # T_Empty THEN a.province ELSE a.region
RawCity(a) ==
    IF a.city # T_Empty THEN a.city
    ELSE IF a.town # T_Empty THEN a.town
    ELSE IF a.village # T_Empty THEN a.village ELSE a.municipality

-----------------------------------------------------------------------------
(* Claims about a run into a crowded library (SpecCrowded) *)

\* the path a media file is given in a folder and all its candidates of the
\* counters 1 to 1000 exist
Exhausted(file_path, folder) ==
    LET proposed == GeneratePath(filename_pattern, Extract(file_path), <<folder>>)
    IN  /\ Exists(files, proposed)
        /\ \A n \in 1..MaxCounter :
               Exists(files, PathWithCounter(filename_pattern, proposed,
                                             <<Extract(file_path)>>, n))

\* the folders the file of this step is sent to: Unknown without GPS, else
\* the location the step has recorded (none when the lookup raised)
FoldersOfStep ==
    IF Extract(media_files[index]).gps_coords = <<>> THEN {"Unknown"}
    ELSE {folder \in LibraryFolders : folder \in stats'.unique_locations}

\* C28: when the path of a file and all its candidates with counters 1 to
\* 1000 exist, ensure_unique_path raises: the step of the file neither returns
\* a path nor goes on; the file is counted as failed with an error of its
\* name, it is not a duplicate, nothing is moved, copied, created or logged
\* for it, and the run goes on to the next file (or to its end)
C28_ExhaustionFailsTheFile ==
    [][(/\ pc = "file"
        /\ stats'.files_with_date = stats.files_with_date + 1
        /\ \E folder \in FoldersOfStep : Exhausted(media_files[index], folder))
       => /\ targets'[index] = <<>>
          /\ target' = <<>>
          /\ stats'.failed_files = stats.failed_files + 1
          /\ stats'.processed_files = stats.processed_files
          /\ stats'.errors = Append(stats.errors, NameOf(media_files[index]) \o ": error")
          /\ stats'.duplicates_found = stats.duplicates_found
          /\ duplicates' = duplicates
          /\ files' = files
          /\ dirs' = dirs
          /\ transactions' = transactions
          /\ IF index < Len(media_files)
             THEN pc' = "file" /\ index' = index + 1
             ELSE pc' = "finish" /\ index' = index]_vars

\* C28 witness: a run that is not a dry run has ended; the first file was
\* sent to France, where its path and the candidates 1 to 1000 existed, and
\* failed; the second file was then placed in Unknown and logged
C28_Witness ==
    /\ pc = "done"
    /\ ~dry_run
    /\ media_files = <<InboxA, InboxB>>
    /\ stats.files_with_date = 2
    /\ stats.unique_locations = {TextOf(T_France)}
    /\ Exhausted(InboxA, TextOf(T_France))
    /\ targets[1] = <<>>
    /\ stats.failed_files = 1
    /\ stats.errors = <<NameOf(InboxA) \o ": error">>
    /\ targets[2] # <<>>
    /\ stats.processed_files = 1
    /\ Len(transactions) = 1
    /\ transactions[1].source = InboxB
    /\ duplicates = <<>>

\* with the candidates 1 to 999 taken the file gets the candidate of counter
\* 1000, and the next file of the same name then fails
C28_LastCounterUsed ==
    /\ pc = "done"
    /\ ~dry_run
    /\ media_files = <<InboxB, InLibrary>>
    /\ targets[1] # <<>>
    /\ targets[1][1] = PathWithCounter(filename_pattern, ProposedIn(filename_pattern, "Unknown"),
                                       <<Extract(InboxB)>>, MaxCounter)
    /\ stats.processed_files = 1
    /\ targets[2] = <<>>
    /\ stats.failed_files = 1
    /\ stats.files_with_date = 2

-----------------------------------------------------------------------------
(* Claims about the rate limit (SpecRate) *)

\* C29: any two consecutive provider calls of one classifier, to the same
\* provider or to different ones, for the same file or for different files,
\* start at least min_api_interval apart, and last_api_call is the start of
\* the latest call from the moment that call goes out
C29_CallsSpaced ==
    /\ \A k \in 1..(Len(api_starts) - 1) :
           api_starts[k + 1].at - api_starts[k].at >= min_api_interval
    /\ api_starts # <<>> => last_api_call = api_starts[Len(api_starts)].at
    /\ (\E provider \in Providers : pc = AtCall(provider)) =>
           /\ api_starts # <<>>
           /\ last_api_call = api_starts[Len(api_starts)].at
           /\ last_api_call <= clock

\* C29 witness: LocationIQ was called for a file and gave nothing, Nominatim
\* was called for the same file exactly one interval later (the classifier
\* slept), and LocationIQ again for the next file
C29_Witness ==
    /\ Len(api_starts) = 3
    /\ api_starts[1].provider = "locationiq"
    /\ api_starts[2].provider = "nominatim"
    /\ api_starts[2].file = api_starts[1].file
    /\ api_starts[2].at = api_starts[1].at + min_api_interval
    /\ api_starts[3].provider = "locationiq"
    /\ api_starts[3].file # api_starts[2].file
    /\ pc = AtCall("locationiq")

\* two calls to the same provider for different files, one interval apart
C29_WitnessSameProvider ==
    /\ ~apiKey
    /\ Len(api_starts) >= 2
    /\ api_starts[1].provider = "nominatim"
    /\ api_starts[2].provider = "nominatim"
    /\ api_starts[2].file # api_starts[1].file
    /\ api_starts[2].at = api_starts[1].at + min_api_interval

-----------------------------------------------------------------------------
(* Claims about overwriting (SpecCrowded) *)

\* a rename or a copy to the target is about to be issued
OperationIssued == pc \in {"operate", "move_copy"}

\* C30: in a run that is not a dry run, whenever a rename or a copy is about
\* to be issued nothing exists at its destination; no step changes the bytes
\* at a path that exists, be it a file that lay in the library before the run
\* or one placed earlier in the run (only the copy that is being verified can
\* be found damaged); and of two logged operations with the same destination
\* the earlier one failed
C30_NeverOverwrites ==
    [][~dry_run =>
          /\ OperationIssued => target # <<>> /\ ~Exists(files, target[1])
          /\ files' # files =>
                 \A q \in DOMAIN files :
                     \/ q \notin DOMAIN files'
                     \/ files'[q] = files[q]
                     \/ pc = "verify" /\ target = <<q>>
          /\ \A a, b \in 1..Len(transactions') :
                 (a < b /\ transactions'[a].destination = transactions'[b].destination)
                     => ~transactions'[a].success]_vars

\* C30 witness: a run that is not a dry run has ended; both files were sent
\* to the folder Unknown, the first was placed at the proposed path and the
\* second, of the same name, beside it under counter 1; each destination
\* holds the bytes of its own source, and the files that lay in the library
\* are as they were
C30_Witness ==
    /\ pc = "done"
    /\ ~dry_run
    /\ media_files = <<InboxA, InboxB>>
    /\ Len(transactions) = 2
    /\ transactions[1].success
    /\ transactions[2].success
    /\ targets[1] = <<ProposedIn(filename_pattern, "Unknown")>>
    /\ targets[2] = <<PathWithCounter(filename_pattern, targets[1][1],
                                      <<Extract(InboxB)>>, 1)>>
    /\ files[targets[1][1]] = InitialContent[InboxA]
    /\ files[targets[2][1]] = InitialContent[InboxB]
    /\ Exists(files, ProposedIn(filename_pattern, TextOf(T_France)))
    /\ files[ProposedIn(filename_pattern, TextOf(T_France))] = OldContent

\* a file sent to a folder where its path and the candidates 1 to 999 lay
\* before the run was placed under counter 1000, and the file at its proposed
\* path is as it was
C30_WitnessOldFiles ==
    /\ pc = "done"
    /\ ~dry_run
    /\ media_files = <<InboxA>>
    /\ Len(transactions) = 1
    /\ transactions[1].success
    /\ targets[1] = <<PathWithCounter(filename_pattern,
                                      ProposedIn(filename_pattern, TextOf(T_France)),
                                      <<Extract(InboxA)>>, MaxCounter)>>
    /\ files[targets[1][1]] = InitialContent[InboxA]
    /\ files[ProposedIn(filename_pattern, TextOf(T_France))] = OldContent

====
